---- MODULE Spec2Model ----
(***************************************************************************)
(* Hybrid lexical-semantic retrieval engine and ANN benchmark harness.     *)
(*                                                                         *)
(*   HybridSearchEngine   (SimilarityEngines/hybrid-search-engine.py)      *)
(*   SimilarityBenchmarker (scripts/similarity_benchmarker.py)             *)
(*                                                                         *)
(* Numbers.  Python floats are modelled by exact rationals <<n, d>> with   *)
(* d > 0 and gcd(n, d) = 1.  BM25 scores, which involve logarithms, are    *)
(* fixed-point thousandths (the table LnHalf).  Texts are tuples of        *)
(* one-character strings, so that tokenisation is computed.                *)
(***************************************************************************)
EXTENDS Integers, Sequences, FiniteSets, TLC

VARIABLES
    \* ---- HybridSearchEngine instance (hybrid-search-engine.py:64-74)
    fusion_strategy,    \* self.fusion_strategy
    items,              \* self.items
    embeddings,         \* self.embeddings
    vector_index,       \* self.vector_index   (faiss.IndexFlatIP or None)
    bm25,               \* self.bm25           (BM25Okapi or None)
    tokenized_corpus,   \* self.tokenized_corpus
    last,               \* the most recent method call on the engine and its outcome
    \* ---- direct calls of the fusion functions
    fz,
    \* ---- SimilarityBenchmarker sweep
    bn,
    \* ---- calls on one engine that overlap in time: each thread's position and locals
    th,
    \* ---- CLIPSearchEngine instance and the files it saves
    cl,
    \* ---- recall computations of SimilarityBenchmarker
    rc,
    \* ---- SimilarityBenchmarker, statement by statement
    sw,
    \* ---- EmbeddingGenerator instance, its cache and the calls on it
    eg

engine_vars == <<fusion_strategy, items, embeddings, vector_index, bm25, tokenized_corpus>>
vars == <<fusion_strategy, items, embeddings, vector_index, bm25, tokenized_corpus, last, fz, bn,
          th, cl, rc, sw, eg>>

-----------------------------------------------------------------------------
(* Bounds of the model *)

\* longest corpus handed to add_items
MaxItems == 3
\* longest candidate list handed directly to a fusion function
MaxCand == 2

-----------------------------------------------------------------------------
(* Sequences *)

Range(s) == {s[i] : i \in 1..Len(s)}

Reverse(s) == [i \in 1..Len(s) |-> s[Len(s) + 1 - i]]

\* Python s[:n] for n >= 0 and for n < 0 (all but the last -n elements)
Prefix(s, n) ==
    IF n >= 0 THEN SubSeq(s, 1, IF n < Len(s) THEN n ELSE Len(s))
    ELSE SubSeq(s, 1, IF Len(s) + n > 0 THEN Len(s) + n ELSE 0)

SeqsUpTo(S, n) == UNION {[1..m -> S] : m \in 0..n}

-----------------------------------------------------------------------------
(* Exact rationals standing for Python floats *)

Abs(x) == IF x < 0 THEN -x ELSE x

RECURSIVE Gcd(_, _)
Gcd(a, b) == IF b = 0 THEN a ELSE Gcd(b, a % b)

Rat(n, d) ==
    LET g == Gcd(Abs(n), Abs(d))
        s == IF d < 0 THEN -1 ELSE 1
    IN  <<s * (n \div g), s * (d \div g)>>

Lcm(a, b) == (a \div Gcd(a, b)) * b

RZero == <<0, 1>>
ROne == <<1, 1>>
RInt(n) == <<n, 1>>

RAdd(a, b) ==
    LET L == Lcm(a[2], b[2])
    IN  Rat(a[1] * (L \div a[2]) + b[1] * (L \div b[2]), L)

RMul(a, b) ==
    LET g1 == Gcd(Abs(a[1]), b[2])
        g2 == Gcd(Abs(b[1]), a[2])
    IN  Rat((a[1] \div g1) * (b[1] \div g2), (a[2] \div g2) * (b[2] \div g1))

\* a / b for b # 0
RDiv(a, b) == RMul(a, Rat(b[2], b[1]))

RLt(a, b) ==
    LET L == Lcm(a[2], b[2])
    IN  a[1] * (L \div a[2]) < b[1] * (L \div b[2])

RLe(a, b) == a = b \/ RLt(a, b)
RGt(a, b) == RLt(b, a)
RPos(a) == a[1] > 0

-----------------------------------------------------------------------------
(* Texts, items and the embedding model *)

TxtAB == <<"a", " ", "b">>
TxtB == <<"B">>
QryA == <<"a">>
QryBA == <<"B", " ", "a">>
QryDash == <<"-">>

\* the items a corpus is drawn from
ItemAI == [text |-> TxtAB, category |-> "AI"]
ItemTools == [text |-> TxtB, category |-> "Tools"]
ItemPool == {ItemAI, ItemTools}

Queries == {QryA, QryBA, QryDash}

\* filters argument of search: the empty mapping stands for None / {} (both falsy)
NoFilter == <<>>
FilterAI == <<<<"category", "AI">>>>
FilterLaw == <<<<"category", "Law">>>>
Filters == {NoFilter, FilterAI, FilterLaw}

TopKs == {-1, 0, 1, 2}
SearchTopKs == {1, 2, MaxItems + 1}
Strategies == {"weighted", "rrf", "combmnz", "bogus"}

\* SentenceTransformer.encode(text, normalize_embeddings=True): an external model,
\* here a fixed table of 2-D vectors of norm 5 (unit vectors scaled by 5)
Embed(text) ==
    CASE text = TxtAB -> <<5, 0>>
      [] text = TxtB -> <<3, 4>>
      [] text = QryA -> <<0, 5>>
      [] text = QryBA -> <<4, 3>>
      [] OTHER -> <<-5, 0>>

\* inner product of two unit vectors
InnerProduct(x, y) == Rat(x[1] * y[1] + x[2] * y[2], 25)

-----------------------------------------------------------------------------
(* _tokenize: re.findall(r'\w+', text.lower()) *)

Lower(c) ==
    CASE c = "A" -> "a"
      [] c = "B" -> "b"
      [] OTHER -> c

\* \w : letters, digits and the underscore
IsWordChar(c) == c \in {"a", "b", "z", "A", "B", "0", "1", "_"}

\* tokens are kept as tuples of characters; Word names the ones of the model
Word(t) ==
    CASE t = <<"a">> -> "a"
      [] t = <<"b">> -> "b"
      [] OTHER -> "other"

RECURSIVE FindAllWords(_, _, _)
FindAllWords(text, cur, acc) ==
    IF text = <<>> THEN (IF cur = <<>> THEN acc ELSE Append(acc, Word(cur)))
    ELSE IF IsWordChar(Head(text)) THEN FindAllWords(Tail(text), Append(cur, Head(text)), acc)
    ELSE FindAllWords(Tail(text), <<>>, IF cur = <<>> THEN acc ELSE Append(acc, Word(cur)))

_tokenize(text) == FindAllWords([i \in 1..Len(text) |-> Lower(text[i])], <<>>, <<>>)

-----------------------------------------------------------------------------
(* rank_bm25.BM25Okapi, as built at hybrid-search-engine.py:118 and queried at :158 *)

\* BM25Okapi defaults k1 = 1.5, b = 0.75, epsilon = 0.25
BM25_k1 == <<3, 2>>
BM25_b == <<3, 4>>
BM25_epsilon == <<1, 4>>

\* round(1000 * ln(n + 0.5)) for n = 0..6
LnHalf == <<-693, 405, 916, 1253, 1504, 1705, 1872>>
LogHalf(n) == LnHalf[n + 1]

CountOf(doc, w) == Cardinality({i \in 1..Len(doc) : doc[i] = w})

\* frequencies of one document: word -> occurrences
Frequencies(doc) == [w \in Range(doc) |-> CountOf(doc, w)]

RECURSIVE SumSeq(_)
SumSeq(s) == IF s = <<>> THEN 0 ELSE Head(s) + SumSeq(Tail(s))

Vocabulary(corpus) == UNION {Range(corpus[i]) : i \in 1..Len(corpus)}

\* nd[word]: the number of documents that contain word
DocCount(corpus, w) == Cardinality({i \in 1..Len(corpus) : w \in Range(corpus[i])})

RECURSIVE SumOver(_, _)
SumOver(f, S) ==
    IF S = {} THEN 0
    ELSE LET x == CHOOSE y \in S : TRUE IN f[x] + SumOver(f, S \ {x})

\* BM25.__init__ divides by corpus_size, _calc_idf by len(self.idf)
BM25Raises(corpus) == Len(corpus) = 0 \/ Vocabulary(corpus) = {}

\* _calc_idf: idf = log(N - n + 0.5) - log(n + 0.5); a negative idf becomes
\* epsilon * average_idf.  Thousandths.
CalcIdf(corpus) ==
    LET N == Len(corpus)
        V == Vocabulary(corpus)
        raw == [w \in V |-> LogHalf(N - DocCount(corpus, w)) - LogHalf(DocCount(corpus, w))]
        average_idf == SumOver(raw, V) \div Cardinality(V)
        eps == (BM25_epsilon[1] * average_idf) \div BM25_epsilon[2]
    IN  [w \in V |-> IF raw[w] < 0 THEN eps ELSE raw[w]]

BM25Okapi(corpus) ==
    [is_none |-> FALSE,
     corpus_size |-> Len(corpus),
     doc_len |-> [i \in 1..Len(corpus) |-> Len(corpus[i])],
     num_doc |-> SumSeq([i \in 1..Len(corpus) |-> Len(corpus[i])]),
     doc_freqs |-> [i \in 1..Len(corpus) |-> Frequencies(corpus[i])],
     idf |-> CalcIdf(corpus)]

NoBM25 == [is_none |-> TRUE, corpus_size |-> 0, doc_len |-> <<>>, num_doc |-> 0,
           doc_freqs |-> <<>>, idf |-> <<>>]

\* q_freq * (k1 + 1) / (q_freq + k1 * (1 - b + b * doc_len / avgdl))
TfFactor(q_freq, doc_len, num_doc, corpus_size) ==
    LET avgdl == Rat(num_doc, corpus_size)
        norm == RAdd(RAdd(ROne, RMul(RInt(-1), BM25_b)),
                     RMul(BM25_b, RDiv(RInt(doc_len), avgdl)))
    IN  RDiv(RMul(RInt(q_freq), RAdd(BM25_k1, ROne)),
             RAdd(RInt(q_freq), RMul(BM25_k1, norm)))

\* the contribution of query token q to document i, in thousandths
TermScore(bm, q, i) ==
    LET q_freq == IF q \in DOMAIN bm.doc_freqs[i] THEN bm.doc_freqs[i][q] ELSE 0
        idf == IF q \in DOMAIN bm.idf THEN bm.idf[q] ELSE 0
        f == TfFactor(q_freq, bm.doc_len[i], bm.num_doc, bm.corpus_size)
    IN  IF q_freq = 0 \/ idf = 0 THEN 0 ELSE (idf * f[1]) \div f[2]

\* BM25Okapi.get_scores(query): one score per document, summed over the query tokens
get_scores(bm, query) ==
    [i \in 1..bm.corpus_size |->
        Rat(SumSeq([j \in 1..Len(query) |-> TermScore(bm, query[j], i)]), 1000)]

-----------------------------------------------------------------------------
(* numpy and faiss *)

\* np.argsort(scores): 0-based positions by ascending score, equal scores in
\* position order (the insertion sort numpy applies to short arrays)
ArgSortPos(scores, i) ==
    1 + Cardinality({j \in 1..Len(scores) :
            RLt(scores[j], scores[i]) \/ (scores[j] = scores[i] /\ j < i)})

argsort(scores) ==
    [p \in 1..Len(scores) |-> (CHOOSE i \in 1..Len(scores) : ArgSortPos(scores, i) = p) - 1]

\* the score faiss reports in the slots it could not fill (-FLT_MAX), with label -1
FltLowest == <<-1000, 1>>

\* (score, id) order of the faiss min-heap (CMin::cmp2)
HeapLess(a, b) == RLt(a[1], b[1]) \/ (a[1] = b[1] /\ a[2] < b[2])

HeapTop(heap) == CHOOSE t \in heap : \A u \in heap : u = t \/ HeapLess(t, u)

\* HeapResultHandler.add_result for database vectors j..ntotal-1, k slots
RECURSIVE HeapAddAll(_, _, _, _)
HeapAddAll(ip, j, k, heap) ==
    IF j > Len(ip) THEN heap
    ELSE IF Cardinality(heap) < k THEN HeapAddAll(ip, j + 1, k, heap \cup {<<ip[j], j - 1>>})
    ELSE IF RLt(HeapTop(heap)[1], ip[j])
         THEN HeapAddAll(ip, j + 1, k, (heap \ {HeapTop(heap)}) \cup {<<ip[j], j - 1>>})
    ELSE HeapAddAll(ip, j + 1, k, heap)

\* heap_reorder: the largest (score, id) first
RECURSIVE HeapReorder(_)
HeapReorder(heap) ==
    IF heap = {} THEN <<>>
    ELSE LET t == HeapTop(heap) IN Append(HeapReorder(heap \ {t}), t)

\* IndexFlatIP.search(query, k), k > 0: (label, score) pairs, best first, padded with -1
IndexFlatIP_search(xb, q, k) ==
    LET ip == [j \in 1..Len(xb) |-> InnerProduct(q, xb[j])]
        found == HeapReorder(HeapAddAll(ip, 1, k, {}))
    IN  [p \in 1..k |-> IF p <= Len(found) THEN <<found[p][2], found[p][1]>>
                        ELSE <<-1, FltLowest>>]

-----------------------------------------------------------------------------
(* Python dict (insertion ordered), set and sorted *)

DictHas(d, k) == \E i \in 1..Len(d) : d[i][1] = k
DictGet(d, k, default) ==
    IF DictHas(d, k) THEN d[CHOOSE i \in 1..Len(d) : d[i][1] = k][2] ELSE default
\* d[k] = v: a new key goes last, a known key keeps its place
DictSet(d, k, v) ==
    IF DictHas(d, k) THEN [i \in 1..Len(d) |-> IF d[i][1] = k THEN <<k, v>> ELSE d[i]]
    ELSE Append(d, <<k, v>>)

RECURSIVE DictFrom(_, _)
DictFrom(pairs, d) ==
    IF pairs = <<>> THEN d ELSE DictFrom(Tail(pairs), DictSet(d, Head(pairs)[1], Head(pairs)[2]))

DictKeys(d) == {d[i][1] : i \in 1..Len(d)}

\* iteration order of a CPython set of small ints: by hash slot, which is the value
\* itself for 0, 1, 2, ... and a high slot for -1 (hash(-1) = -2)
HashSlot(i) == IF i < 0 THEN 30 + i ELSE i
RECURSIVE SetIter(_)
SetIter(S) ==
    IF S = {} THEN <<>>
    ELSE LET x == CHOOSE y \in S : \A z \in S : HashSlot(y) <= HashSlot(z)
         IN  <<x>> \o SetIter(S \ {x})

\* sorted(d.items(), key=lambda x: x[1], reverse=True): stable, equal keys keep
\* their order in d
SortedPos(d, i) ==
    1 + Cardinality({j \in 1..Len(d) :
            RGt(d[j][2], d[i][2]) \/ (d[j][2] = d[i][2] /\ j < i)})

\* d.items() as it stands, without the sort
items_in_insertion_order(d) == d

sorted_by_score_desc(d) ==
    [p \in 1..Len(d) |-> d[CHOOSE i \in 1..Len(d) : SortedPos(d, i) = p]]

RECURSIVE MaxScore(_)
MaxScore(s) ==
    IF Len(s) = 1 THEN s[1]
    ELSE LET m == MaxScore(Tail(s)) IN IF RLt(m, s[1]) THEN s[1] ELSE m

-----------------------------------------------------------------------------
(* The retrieval paths and the fusion functions of HybridSearchEngine *)

\* constructor defaults: semantic_weight = 0.7, keyword_weight = 0.3
semantic_weight == <<7, 10>>
keyword_weight == <<3, 10>>

\* default smoothing constant of _fuse_rrf
RrfDefaultK == 60

\* _semantic_search(query, top_k) on a built vector index
_semantic_search(vindex, query, top_k) == IndexFlatIP_search(vindex.xb, Embed(query), top_k)

\* _keyword_search(query, top_k) on a built BM25 index
_keyword_search(bm, query, top_k) ==
    LET scores == get_scores(bm, _tokenize(query))
        top_indices == Prefix(Reverse(argsort(scores)), top_k)
    IN  [p \in 1..Len(top_indices) |-> <<top_indices[p], scores[top_indices[p] + 1]>>]

\* first loop of _fuse_weighted: scores[idx] = semantic_weight * score
RECURSIVE WeightedSemantic(_, _)
WeightedSemantic(sem, scores) ==
    IF sem = <<>> THEN scores
    ELSE WeightedSemantic(Tail(sem),
            DictSet(scores, Head(sem)[1], RMul(semantic_weight, Head(sem)[2])))

\* score / max_keyword if max_keyword > 0 else 0
NormalizeKeyword(score, max_keyword) ==
    IF RPos(max_keyword) THEN RDiv(score, max_keyword) ELSE RZero

\* second loop of _fuse_weighted
RECURSIVE WeightedKeyword(_, _, _)
WeightedKeyword(kw, max_keyword, scores) ==
    IF kw = <<>> THEN scores
    ELSE LET idx == Head(kw)[1]
             term == RMul(keyword_weight, NormalizeKeyword(Head(kw)[2], max_keyword))
         IN  WeightedKeyword(Tail(kw), max_keyword,
                DictSet(scores, idx,
                    IF DictHas(scores, idx) THEN RAdd(DictGet(scores, idx, RZero), term)
                    ELSE term))

MaxKeyword(kw) == IF kw = <<>> THEN ROne ELSE MaxScore([i \in 1..Len(kw) |-> kw[i][2]])

_fuse_weighted(semantic_results, keyword_results) ==
    sorted_by_score_desc(
        WeightedKeyword(keyword_results, MaxKeyword(keyword_results),
            WeightedSemantic(semantic_results, <<>>)))

\* a first loop that counts ranks from 2: 1 / (k + rank + 1)
RECURSIVE RrfSemanticRankShifted(_, _, _, _)
RrfSemanticRankShifted(sem, rank, k, scores) ==
    IF sem = <<>> THEN scores
    ELSE RrfSemanticRankShifted(Tail(sem), rank + 1, k,
            DictSet(scores, Head(sem)[1], Rat(1, k + rank + 1)))

\* first loop of _fuse_rrf: scores[idx] = 1 / (k + rank)
RECURSIVE RrfSemantic(_, _, _, _)
RrfSemantic(sem, rank, k, scores) ==
    IF sem = <<>> THEN scores
    ELSE RrfSemantic(Tail(sem), rank + 1, k, DictSet(scores, Head(sem)[1], Rat(1, k + rank)))

\* a second loop that forgets the smoothing constant: 1 / rank
RECURSIVE RrfKeywordNoSmoothing(_, _, _, _)
RrfKeywordNoSmoothing(kw, rank, k, scores) ==
    IF kw = <<>> THEN scores
    ELSE LET idx == Head(kw)[1]
             term == Rat(1, rank)
         IN  RrfKeywordNoSmoothing(Tail(kw), rank + 1, k,
                DictSet(scores, idx,
                    IF DictHas(scores, idx) THEN RAdd(DictGet(scores, idx, RZero), term)
                    ELSE term))

\* second loop of _fuse_rrf
RECURSIVE RrfKeyword(_, _, _, _)
RrfKeyword(kw, rank, k, scores) ==
    IF kw = <<>> THEN scores
    ELSE LET idx == Head(kw)[1]
             term == Rat(1, k + rank)
         IN  RrfKeyword(Tail(kw), rank + 1, k,
                DictSet(scores, idx,
                    IF DictHas(scores, idx) THEN RAdd(DictGet(scores, idx, RZero), term)
                    ELSE term))

_fuse_rrf(semantic_results, keyword_results, k) ==
    sorted_by_score_desc(
        RrfKeyword(keyword_results, 1, k, RrfSemantic(semantic_results, 1, k, <<>>)))

\* scores[idx] * counts[idx] of _fuse_combmnz for one index
CombMnzScore(semantic_dict, keyword_dict, max_keyword, idx) ==
    LET sem_score == DictGet(semantic_dict, idx, RZero)
        kw_score == NormalizeKeyword(DictGet(keyword_dict, idx, RZero), max_keyword)
        count == (IF RPos(sem_score) THEN 1 ELSE 0) + (IF RPos(kw_score) THEN 1 ELSE 0)
    IN  RMul(RAdd(sem_score, kw_score), RInt(count))

_fuse_combmnz(semantic_results, keyword_results) ==
    LET semantic_dict == DictFrom(semantic_results, <<>>)
        keyword_dict == DictFrom(keyword_results, <<>>)
        max_keyword == IF keyword_dict = <<>> THEN ROne
                       ELSE MaxScore([i \in 1..Len(keyword_dict) |-> keyword_dict[i][2]])
        all_indices == SetIter(DictKeys(semantic_dict) \cup DictKeys(keyword_dict))
        final_scores == [p \in 1..Len(all_indices) |->
            <<all_indices[p], CombMnzScore(semantic_dict, keyword_dict, max_keyword, all_indices[p])>>]
    IN  sorted_by_score_desc(final_scores)

\* the strategy dispatch of search (lines 270-277)
KnownStrategy(strategy) == strategy \in {"weighted", "rrf", "combmnz"}

Fuse(strategy, semantic_results, keyword_results) ==
    CASE strategy = "weighted" -> _fuse_weighted(semantic_results, keyword_results)
      [] strategy = "rrf" -> _fuse_rrf(semantic_results, keyword_results, RrfDefaultK)
      [] OTHER -> _fuse_combmnz(semantic_results, keyword_results)

-----------------------------------------------------------------------------
(* HybridSearchEngine.search *)

\* str(idx)
Str(i) ==
    CASE i = -1 -> "-1"
      [] i = 0 -> "0"
      [] i = 1 -> "1"
      [] i = 2 -> "2"
      [] i = 3 -> "3"
      [] i = 4 -> "4"
      [] OTHER -> "5"

\* item.get(k)
ItemGet(item, k) == IF k \in DOMAIN item THEN item[k] ELSE "None"

\* a filter test that looks at the keys only
MatchesKeyOnly(item, filters) == \A i \in 1..Len(filters) : filters[i][1] \in DOMAIN item

\* all(item.get(k) == v for k, v in filters.items())
Matches(item, filters) == \A i \in 1..Len(filters) : ItemGet(item, filters[i][1]) = filters[i][2]

\* indexing that rejects negative positions
IndexInRangeNonNegative(its, idx) == 0 <= idx /\ idx < Len(its)

\* self.items[idx] raises IndexError outside -len..len-1; a negative idx counts from the end
IndexInRange(its, idx) == -Len(its) <= idx /\ idx < Len(its)
ItemAt(its, idx) == IF idx < 0 THEN its[Len(its) + idx + 1] ELSE its[idx + 1]

MakeResult(item, idx, score) ==
    [id |-> Str(idx),
     text |-> ItemGet(item, "text"),
     score |-> score,
     metadata |-> [k \in DOMAIN item \ {"text"} |-> item[k]]]

\* FilterLoop with the top_k cut-off skipped whenever a filter is given
RECURSIVE FilterLoopNoCutWhenFiltered(_, _, _, _, _)
FilterLoopNoCutWhenFiltered(its, fused, filters, top_k, results) ==
    IF fused = <<>> THEN [outcome |-> "ok", results |-> results]
    ELSE LET idx == Head(fused)[1] IN
         IF ~IndexInRange(its, idx) THEN [outcome |-> "IndexError", results |-> <<>>]
         ELSE IF filters # <<>> /\ ~Matches(ItemAt(its, idx), filters)
              THEN FilterLoopNoCutWhenFiltered(its, Tail(fused), filters, top_k, results)
         ELSE LET appended == Append(results, MakeResult(ItemAt(its, idx), idx, Head(fused)[2]))
              IN  IF filters = <<>> /\ Len(appended) >= top_k
                  THEN [outcome |-> "ok", results |-> appended]
                  ELSE FilterLoopNoCutWhenFiltered(its, Tail(fused), filters, top_k, appended)

\* the loop of lines 280-300 over the fused list
RECURSIVE FilterLoop(_, _, _, _, _)
FilterLoop(its, fused, filters, top_k, results) ==
    IF fused = <<>> THEN [outcome |-> "ok", results |-> results]
    ELSE LET idx == Head(fused)[1] IN
         IF ~IndexInRange(its, idx) THEN [outcome |-> "IndexError", results |-> <<>>]
         ELSE IF filters # <<>> /\ ~Matches(ItemAt(its, idx), filters)
              THEN FilterLoop(its, Tail(fused), filters, top_k, results)
         ELSE LET appended == Append(results, MakeResult(ItemAt(its, idx), idx, Head(fused)[2]))
              IN  IF Len(appended) >= top_k
                  THEN [outcome |-> "ok", results |-> appended]
                  ELSE FilterLoop(its, Tail(fused), filters, top_k, appended)

NoWork == [encode |-> 0, vector_search |-> 0, bm25_scores |-> 0]

\* search(query, top_k, filters, search_top_k) on an engine whose fields are given:
\* the outcome, the returned list, the intermediate lists and the work done
search(strategy, its, vindex, bm, query, top_k, filters, search_top_k) ==
    LET base == [op |-> "search", query |-> query, top_k |-> top_k, filters |-> filters,
                 search_top_k |-> search_top_k, outcome |-> "ok", results |-> <<>>,
                 semantic_results |-> <<>>, keyword_results |-> <<>>, fused |-> <<>>,
                 work |-> [NoWork EXCEPT !.encode = 1]]
    IN  IF vindex.is_none THEN [base EXCEPT !.outcome = "AttributeError"]
        ELSE LET sem == _semantic_search(vindex, query, search_top_k)
                 s1 == [base EXCEPT !.semantic_results = sem, !.work.vector_search = 1]
             IN  IF bm.is_none THEN [s1 EXCEPT !.outcome = "AttributeError"]
                 ELSE LET kw == _keyword_search(bm, query, search_top_k)
                          s2 == [s1 EXCEPT !.keyword_results = kw, !.work.bm25_scores = 1]
                      IN  IF ~KnownStrategy(strategy) THEN [s2 EXCEPT !.outcome = "ValueError"]
                          ELSE LET fused == Fuse(strategy, sem, kw)
                                   loop == FilterLoop(its, fused, filters, top_k, <<>>)
                               IN  [s2 EXCEPT !.fused = fused, !.outcome = loop.outcome,
                                              !.results = loop.results]

-----------------------------------------------------------------------------
(* The engine as a state machine *)

NoIndex == [is_none |-> TRUE, xb |-> <<>>]
NoEmbeddings == [is_none |-> TRUE, rows |-> <<>>]

NoCall == [op |-> "none", query |-> <<>>, top_k |-> 0, filters |-> <<>>,
           search_top_k |-> 0, outcome |-> "ok", results |-> <<>>,
           semantic_results |-> <<>>, keyword_results |-> <<>>, fused |-> <<>>,
           work |-> NoWork]

AddCall(outcome) == [NoCall EXCEPT !.op = "add_items", !.outcome = outcome]

\* the corpora handed to add_items: up to MaxItems items, one item followed by
\* copies of the other (duplicates give equal scores), and the empty corpus
CorpusOf(first, rest, n) == [i \in 1..n |-> IF i = 1 THEN first ELSE rest]
\* no overlapping calls, no CLIP engine, no recall computation
ThIdle == <<>>
ClIdle == <<>>
RcIdle == <<>>
\* no statement-level benchmark run, no EmbeddingGenerator
SwIdle == <<>>
EgIdle == <<>>

\* no direct fusion call, no benchmark under way
FzIdle == [pc |-> "idle", fn |-> "none", sem |-> <<>>, kw |-> <<>>, k |-> 0, out |-> <<>>]
NoBenchIndex == [id |-> 0, build |-> <<>>, query_param |-> 0]
BnIdle == [pc |-> "idle", caller |-> "none", stage |-> "none", n_vectors |-> 0,
           n_queries |-> 0, algorithm |-> "none", outer |-> <<>>, inner |-> <<>>,
           i |-> 0, j |-> 0, index |-> NoBenchIndex, builds |-> 0, results |-> <<>>,
           all_results |-> <<>>, has_returned |-> FALSE, returned |-> <<>>,
           error |-> "none"]

Corpora ==
    {CorpusOf(ItemAI, ItemTools, n) : n \in 0..MaxItems}
        \cup {CorpusOf(ItemTools, ItemAI, n) : n \in 0..MaxItems}

Init ==
    /\ sw = SwIdle
    /\ eg = EgIdle
    /\ fusion_strategy \in Strategies
    /\ items = <<>>
    /\ embeddings = NoEmbeddings
    /\ vector_index = NoIndex
    /\ bm25 = NoBM25
    /\ tokenized_corpus = <<>>
    /\ last = NoCall
    /\ fz = FzIdle
    /\ bn = BnIdle
    /\ th = ThIdle
    /\ cl = ClIdle
    /\ rc = RcIdle

\* add_items(new_items): lines 96-120.  encode_ok = FALSE is the embedding model raising.
\* A call begins when the previous call has returned (one caller, one thread).
AddItems(new_items, encode_ok) ==
    LET texts == [i \in 1..Len(new_items) |-> new_items[i].text]
        emb == [i \in 1..Len(texts) |-> Embed(texts[i])]
        toks == [i \in 1..Len(texts) |-> _tokenize(texts[i])]
    IN  /\ last = NoCall
        /\ items' = new_items
        /\ UNCHANGED <<fusion_strategy, fz, bn, th, cl, rc, sw, eg>>
        /\ IF ~encode_ok
           THEN /\ last' = AddCall("EmbeddingError")
                /\ UNCHANGED <<embeddings, vector_index, bm25, tokenized_corpus>>
           ELSE /\ embeddings' = [is_none |-> FALSE, rows |-> emb]
                /\ IF new_items = <<>>
                   THEN \* self.embeddings.shape[1] of an empty array
                        /\ last' = AddCall("IndexError")
                        /\ UNCHANGED <<vector_index, bm25, tokenized_corpus>>
                   ELSE /\ vector_index' = [is_none |-> FALSE, xb |-> emb]
                        /\ tokenized_corpus' = toks
                        /\ IF BM25Raises(toks)
                           THEN /\ last' = AddCall("ZeroDivisionError")
                                /\ UNCHANGED bm25
                           ELSE /\ last' = AddCall("ok")
                                /\ bm25' = BM25Okapi(toks)

Search(query, top_k, filters, search_top_k) ==
    /\ last = NoCall
    /\ last' = search(fusion_strategy, items, vector_index, bm25,
                      query, top_k, filters, search_top_k)
    /\ UNCHANGED <<engine_vars, fz, bn, th, cl, rc, sw, eg>>

\* the caller takes the outcome of the call (its return value or its exception)
Return ==
    /\ last # NoCall
    /\ last' = NoCall
    /\ UNCHANGED <<engine_vars, fz, bn, th, cl, rc, sw, eg>>

Next ==
    \/ \E new_items \in Corpora, encode_ok \in BOOLEAN : AddItems(new_items, encode_ok)
    \/ \E query \in Queries, top_k \in TopKs, filters \in Filters, search_top_k \in SearchTopKs :
          Search(query, top_k, filters, search_top_k)
    \/ Return

Spec == Init /\ [][Next]_vars

-----------------------------------------------------------------------------
(* Direct calls of the fusion functions on candidate lists *)

SemScores == {<<-3, 5>>, <<0, 1>>, <<4, 5>>}
KwScores == {<<-1, 5>>, <<0, 1>>, <<1, 2>>, <<1, 1>>}
RrfKs == {0, 1, RrfDefaultK}

Labels == 0..(MaxCand - 1)

NonIncreasing(cands) == \A i \in 1..(Len(cands) - 1) : RLe(cands[i + 1][2], cands[i][2])

DistinctLabels(cands) ==
    \A i, j \in 1..Len(cands) : (i # j /\ cands[i][1] = cands[j][1]) => cands[i][1] = -1

\* lists as _semantic_search returns them: found vectors best first, each once, then
\* the unfilled slots (-1, lowest score)
SemLists ==
    {s \in SeqsUpTo((Labels \X SemScores) \cup {<<-1, FltLowest>>}, MaxCand) :
        /\ NonIncreasing(s) /\ DistinctLabels(s)
        /\ (s # <<>> => s[1][1] # -1)}

\* lists as _keyword_search returns them: documents best first, each once
KwLists ==
    {s \in SeqsUpTo(Labels \X KwScores, MaxCand) : NonIncreasing(s) /\ DistinctLabels(s)}

InitFuse ==
    /\ sw = SwIdle
    /\ eg = EgIdle
    /\ fusion_strategy = "weighted"
    /\ items = <<>>
    /\ embeddings = NoEmbeddings
    /\ vector_index = NoIndex
    /\ bm25 = NoBM25
    /\ tokenized_corpus = <<>>
    /\ last = NoCall
    /\ bn = BnIdle
    /\ th = ThIdle
    /\ cl = ClIdle
    /\ rc = RcIdle
    /\ \E sem \in SemLists, kw \in KwLists :
          fz = [FzIdle EXCEPT !.pc = "ready", !.sem = sem, !.kw = kw]

FuseWeightedCall ==
    /\ fz.pc = "ready"
    /\ fz' = [fz EXCEPT !.pc = "done", !.fn = "weighted", !.out = _fuse_weighted(fz.sem, fz.kw)]
    /\ UNCHANGED <<engine_vars, last, bn, th, cl, rc, sw, eg>>

FuseRrfCall(k) ==
    /\ fz.pc = "ready"
    /\ fz' = [fz EXCEPT !.pc = "done", !.fn = "rrf", !.k = k, !.out = _fuse_rrf(fz.sem, fz.kw, k)]
    /\ UNCHANGED <<engine_vars, last, bn, th, cl, rc, sw, eg>>

FuseCombmnzCall ==
    /\ fz.pc = "ready"
    /\ fz' = [fz EXCEPT !.pc = "done", !.fn = "combmnz", !.out = _fuse_combmnz(fz.sem, fz.kw)]
    /\ UNCHANGED <<engine_vars, last, bn, th, cl, rc, sw, eg>>

NextFuse ==
    \/ FuseWeightedCall
    \/ \E k \in RrfKs : FuseRrfCall(k)
    \/ FuseCombmnzCall

SpecFuse == InitFuse /\ [][NextFuse]_vars

-----------------------------------------------------------------------------
(* SimilarityBenchmarker: the parameter sweeps and run_all_benchmarks *)

\* most query-time (or build-time) values in one grid argument
MaxGrid == 2
\* most query vectors
MaxQueries == 2

\* dimension of the vectors (128 in the script's own run)
Dimension == 128

DatabaseSizes == {500, 10000}

\* faiss: k-means training needs at least as many points as centroids; an IVFPQ index
\* needs the dimension to be a multiple of m and 2^nbits points per sub-quantizer
BuildRaises(algorithm, b, n_vectors) ==
    CASE algorithm = "IVF" -> n_vectors < b.nlist
      [] algorithm = "IVF+PQ" ->
            Dimension % b.m # 0 \/ n_vectors < b.nlist \/ n_vectors < 2 ^ b.nbits
      [] OTHER -> FALSE

\* faiss IndexIVF.search requires nprobe > 0
SearchRaises(algorithm, query_param) ==
    algorithm \in {"IVF", "IVF+PQ"} /\ query_param <= 0

\* the parameters dict of one BenchmarkResult
Parameters(algorithm, b, q) ==
    CASE algorithm = "HNSW" -> [M |-> b.M, efConstruction |-> b.efConstruction, efSearch |-> q]
      [] algorithm = "IVF" -> [nlist |-> b.nlist, nprobe |-> q]
      [] OTHER -> [nlist |-> b.nlist, m |-> b.m, nbits |-> b.nbits, nprobe |-> q]

BenchmarkResult(algorithm, index, n_queries) ==
    [algorithm |-> algorithm,
     parameters |-> Parameters(algorithm, index.build, index.query_param),
     measured_on |-> index.id,
     build_time_of |-> index.id,
     queries_run |-> n_queries]

\* benchmark_exact (lines 87-118)
ExactResult(n_queries) ==
    [algorithm |-> "Exact", parameters |-> <<>>, measured_on |-> 0, build_time_of |-> 0,
     queries_run |-> n_queries, recall_at_10 |-> ROne, recall_at_100 |-> ROne]

\* the grids of the loops: HNSW builds one index per (M, efConstruction), IVF one per
\* nlist, IVF+PQ a single one
HnswOuter(M_values, ef_construction_values) ==
    [p \in 1..(Len(M_values) * Len(ef_construction_values)) |->
        [M |-> M_values[((p - 1) \div Len(ef_construction_values)) + 1],
         efConstruction |-> ef_construction_values[((p - 1) % Len(ef_construction_values)) + 1]]]
IvfOuter(nlist_values) == [p \in 1..Len(nlist_values) |-> [nlist |-> nlist_values[p]]]
IvfpqOuter(nlist, m, nbits) == <<[nlist |-> nlist, m |-> m, nbits |-> nbits]>>

\* default arguments (lines 122-124, 188-189, 254-257)
HnswDefaultOuter == HnswOuter(<<16, 32>>, <<200, 400>>)
HnswDefaultInner == <<50, 100, 200>>
IvfDefaultOuter == IvfOuter(<<100, 1000>>)
IvfDefaultInner == <<1, 10, 50>>
IvfpqDefaultOuter == IvfpqOuter(1000, 64, 8)
IvfpqDefaultInner == <<1, 10, 50>>

NonEmptySeqs(S, n) == SeqsUpTo(S, n) \ {<<>>}

InitBench ==
    /\ sw = SwIdle
    /\ eg = EgIdle
    /\ fusion_strategy = "weighted"
    /\ items = <<>>
    /\ embeddings = NoEmbeddings
    /\ vector_index = NoIndex
    /\ bm25 = NoBM25
    /\ tokenized_corpus = <<>>
    /\ last = NoCall
    /\ fz = FzIdle
    /\ th = ThIdle
    /\ cl = ClIdle
    /\ rc = RcIdle
    /\ \E n \in DatabaseSizes, q \in 1..MaxQueries :
          bn = [BnIdle EXCEPT !.n_vectors = n, !.n_queries = q]

\* entering the loops of a sweep
StartSweep(b, caller, stage, algorithm, outer, inner) ==
    [b EXCEPT !.pc = IF outer = <<>> THEN "sweep_done" ELSE "build",
              !.caller = caller, !.stage = stage, !.algorithm = algorithm,
              !.outer = outer, !.inner = inner, !.i = 1, !.j = 1, !.results = <<>>]

\* an exception leaves the sweep, and run_all_benchmarks when it is the caller: the
\* local result lists are gone and nothing is returned
Raised(b) ==
    [b EXCEPT !.pc = "raised", !.error = "RuntimeError", !.results = <<>>,
              !.all_results = <<>>, !.has_returned = FALSE, !.returned = <<>>]

\* benchmark_hnsw(M_values, ef_construction_values, ef_search_values)
CallBenchmarkHnsw(M_values, ef_construction_values, ef_search_values) ==
    /\ bn.pc = "idle"
    /\ bn' = StartSweep(bn, "direct", "hnsw", "HNSW",
                        HnswOuter(M_values, ef_construction_values), ef_search_values)
    /\ UNCHANGED <<engine_vars, last, fz, th, cl, rc, sw, eg>>

\* benchmark_ivf(nlist_values, nprobe_values)
CallBenchmarkIvf(nlist_values, nprobe_values) ==
    /\ bn.pc = "idle"
    /\ bn' = StartSweep(bn, "direct", "ivf", "IVF", IvfOuter(nlist_values), nprobe_values)
    /\ UNCHANGED <<engine_vars, last, fz, th, cl, rc, sw, eg>>

\* benchmark_ivfpq(nlist, m, nbits, nprobe_values)
CallBenchmarkIvfpq(nlist, m, nbits, nprobe_values) ==
    /\ bn.pc = "idle"
    /\ bn' = StartSweep(bn, "direct", "ivfpq", "IVF+PQ", IvfpqOuter(nlist, m, nbits),
                        nprobe_values)
    /\ UNCHANGED <<engine_vars, last, fz, th, cl, rc, sw, eg>>

\* run_all_benchmarks: benchmark_exact, then the HNSW sweep with its defaults
CallRunAllBenchmarks ==
    /\ bn.pc = "idle"
    /\ bn' = StartSweep([bn EXCEPT !.all_results = <<ExactResult(bn.n_queries)>>],
                        "run_all", "hnsw", "HNSW", HnswDefaultOuter, HnswDefaultInner)
    /\ UNCHANGED <<engine_vars, last, fz, th, cl, rc, sw, eg>>

\* one pass of an outer loop up to the inner loop: build (and train) a fresh index
Build ==
    /\ bn.pc = "build"
    /\ bn' = IF BuildRaises(bn.algorithm, bn.outer[bn.i], bn.n_vectors) THEN Raised(bn)
             ELSE [bn EXCEPT !.builds = @ + 1,
                             !.index = [id |-> bn.builds + 1, build |-> bn.outer[bn.i],
                                        query_param |-> 0],
                             !.j = 1,
                             !.pc = IF bn.inner # <<>> THEN "measure"
                                    ELSE IF bn.i < Len(bn.outer) THEN "build"
                                    ELSE "sweep_done",
                             !.i = IF bn.inner # <<>> THEN @ ELSE @ + 1]
    /\ UNCHANGED <<engine_vars, last, fz, th, cl, rc, sw, eg>>

\* one pass of an inner loop: set the query-time parameter on the index, search every
\* query, compute the metrics, append the BenchmarkResult
Measure ==
    /\ bn.pc = "measure"
    /\ LET index == [bn.index EXCEPT !.query_param = bn.inner[bn.j]]
           last_inner == bn.j = Len(bn.inner)
           last_outer == bn.i = Len(bn.outer)
       IN  bn' = IF SearchRaises(bn.algorithm, index.query_param) THEN Raised(bn)
                 ELSE [bn EXCEPT !.index = index,
                                 !.results = Append(@, BenchmarkResult(bn.algorithm, index,
                                                                       bn.n_queries)),
                                 !.j = IF last_inner THEN 1 ELSE @ + 1,
                                 !.i = IF last_inner THEN @ + 1 ELSE @,
                                 !.pc = IF ~last_inner THEN "measure"
                                        ELSE IF last_outer THEN "sweep_done" ELSE "build"]
    /\ UNCHANGED <<engine_vars, last, fz, th, cl, rc, sw, eg>>

\* return results; in run_all_benchmarks, extend all_results and go on to the next sweep
SweepReturn ==
    /\ bn.pc = "sweep_done"
    /\ bn' = IF bn.caller = "direct"
             THEN [bn EXCEPT !.pc = "returned", !.has_returned = TRUE, !.returned = bn.results]
             ELSE LET all == bn.all_results \o bn.results
                      b == [bn EXCEPT !.all_results = all]
                  IN  CASE bn.stage = "hnsw" ->
                             StartSweep(b, "run_all", "ivf", "IVF", IvfDefaultOuter, IvfDefaultInner)
                        [] bn.stage = "ivf" ->
                             StartSweep(b, "run_all", "ivfpq", "IVF+PQ", IvfpqDefaultOuter,
                                        IvfpqDefaultInner)
                        [] OTHER ->
                             [b EXCEPT !.pc = "returned", !.has_returned = TRUE, !.returned = all]
    /\ UNCHANGED <<engine_vars, last, fz, th, cl, rc, sw, eg>>

MValuePool == {16, 32}
EfConstructionPool == {200}
EfSearchPool == {50, 100}
NlistPool == {100, 1000}
NprobePool == {0, 1, 10}

NextBench ==
    \/ \E M_values \in NonEmptySeqs(MValuePool, MaxGrid),
          ef_construction_values \in NonEmptySeqs(EfConstructionPool, 1),
          ef_search_values \in NonEmptySeqs(EfSearchPool, MaxGrid) :
          CallBenchmarkHnsw(M_values, ef_construction_values, ef_search_values)
    \/ \E nlist_values \in NonEmptySeqs(NlistPool, MaxGrid),
          nprobe_values \in NonEmptySeqs(NprobePool, MaxGrid) :
          CallBenchmarkIvf(nlist_values, nprobe_values)
    \/ \E nlist \in NlistPool, nprobe_values \in NonEmptySeqs(NprobePool, MaxGrid) :
          CallBenchmarkIvfpq(nlist, 64, 8, nprobe_values)
    \/ CallRunAllBenchmarks
    \/ Build
    \/ Measure
    \/ SweepReturn

SpecBench == InitBench /\ [][NextBench]_vars

-----------------------------------------------------------------------------
(* Calls on one HybridSearchEngine that overlap in time.  The class holds no lock:
   each thread runs the statements of its call in order, and the statements of
   different threads interleave.  A step is one statement that reads or writes a
   field of the engine. *)

Threads == {"t1", "t2"}

ConcCorpusA == <<ItemAI, ItemTools>>
ConcCorpusB == <<ItemTools, ItemAI, ItemAI>>
ConcCorpora == {ConcCorpusA, ConcCorpusB}
ConcQueries == {QryA, QryBA}
ConcFilters == {NoFilter, FilterAI}
ConcTopK == 2
ConcSearchTopK == 2

ThreadIdle ==
    [pc |-> "idle", op |-> "none", query |-> <<>>, filters |-> <<>>, new_items |-> <<>>,
     texts |-> <<>>, semantic_results |-> <<>>, keyword_results |-> <<>>, fused |-> <<>>,
     pos |-> 0, index_ref |-> "none", embeddings_arg |-> <<>>, bm25_arg |-> <<>>,
     outcome |-> "none", results |-> <<>>, expect |-> NoCall, overlapped |-> FALSE,
     during |-> {}]

TextsOf(its) == [i \in 1..Len(its) |-> its[i].text]
EmbedAll(texts) == [i \in 1..Len(texts) |-> Embed(texts[i])]
TokenizeAll(texts) == [i \in 1..Len(texts) |-> _tokenize(texts[i])]

InSearch(t) == th[t].pc \in {"s_semantic", "s_keyword", "s_fuse", "s_loop"}
InAddItems(t) ==
    th[t].pc \in {"a_items", "a_encode", "a_index_new", "a_index_load", "a_embeddings_load",
                  "a_index_add", "a_tokenize", "a_bm25_load", "a_bm25"}

\* the engine after add_items(corpus) has completed on a fresh engine, or a fresh engine;
\* obj names the index object the field vector_index refers to
InitConc ==
    /\ sw = SwIdle
    /\ eg = EgIdle
    /\ fusion_strategy \in {"weighted", "rrf", "combmnz"}
    /\ \E built \in BOOLEAN, corpus \in ConcCorpora :
          IF built
          THEN /\ items = corpus
               /\ embeddings = [is_none |-> FALSE, rows |-> EmbedAll(TextsOf(corpus))]
               /\ vector_index = [is_none |-> FALSE, xb |-> EmbedAll(TextsOf(corpus)),
                                   obj |-> "built"]
               /\ tokenized_corpus = TokenizeAll(TextsOf(corpus))
               /\ bm25 = BM25Okapi(TokenizeAll(TextsOf(corpus)))
          ELSE /\ items = <<>>
               /\ embeddings = NoEmbeddings
               /\ vector_index = NoIndex
               /\ tokenized_corpus = <<>>
               /\ bm25 = NoBM25
    /\ last = NoCall
    /\ fz = FzIdle
    /\ bn = BnIdle
    /\ th = [t \in Threads |-> ThreadIdle]
    /\ cl = ClIdle
    /\ rc = RcIdle

\* the calls of other threads that are in flight
InFlight(t) == {th[u].op : u \in {v \in Threads \ {t} : InSearch(v) \/ InAddItems(v)}}

\* a step of an add_items call is seen by every search call in flight
MarkSearches(f, t) ==
    [u \in Threads |-> IF u # t /\ InSearch(u) THEN [f[u] EXCEPT !.overlapped = TRUE] ELSE f[u]]

\* thread t calls search(query, ConcTopK, filters, ConcSearchTopK); expect is what the
\* call returns when it runs alone on the engine as it is now
CallSearch(t, query, filters) ==
    /\ th[t].pc = "idle"
    /\ th' = [th EXCEPT ![t] =
                [ThreadIdle EXCEPT !.pc = "s_semantic", !.op = "search", !.query = query,
                                   !.filters = filters, !.during = InFlight(t),
                                   !.expect = search(fusion_strategy, items, vector_index, bm25,
                                                     query, ConcTopK, filters, ConcSearchTopK)]]
    /\ UNCHANGED <<engine_vars, last, fz, bn, cl, rc, sw, eg>>

\* line 266: _semantic_search reads self.vector_index
SearchSemanticStep(t) ==
    /\ th[t].pc = "s_semantic"
    /\ th' = [th EXCEPT ![t] =
                IF vector_index.is_none
                THEN [@ EXCEPT !.pc = "done", !.outcome = "AttributeError"]
                ELSE [@ EXCEPT !.pc = "s_keyword",
                               !.semantic_results =
                                   _semantic_search(vector_index, th[t].query, ConcSearchTopK)]]
    /\ UNCHANGED <<engine_vars, last, fz, bn, cl, rc, sw, eg>>

\* line 267: _keyword_search reads self.bm25
SearchKeywordStep(t) ==
    /\ th[t].pc = "s_keyword"
    /\ th' = [th EXCEPT ![t] =
                IF bm25.is_none
                THEN [@ EXCEPT !.pc = "done", !.outcome = "AttributeError"]
                ELSE [@ EXCEPT !.pc = "s_fuse",
                               !.keyword_results =
                                   _keyword_search(bm25, th[t].query, ConcSearchTopK)]]
    /\ UNCHANGED <<engine_vars, last, fz, bn, cl, rc, sw, eg>>

\* a fusion in which the order of equal scores changes from one call to the next: the
\* second thread's call gets them in the opposite order
SearchFuseStepTiesByCall(t) ==
    /\ th[t].pc = "s_fuse"
    /\ th' = [th EXCEPT ![t] =
                IF ~KnownStrategy(fusion_strategy)
                THEN [@ EXCEPT !.pc = "done", !.outcome = "ValueError"]
                ELSE LET fused == Fuse(fusion_strategy, th[t].semantic_results,
                                       th[t].keyword_results)
                     IN  [@ EXCEPT !.pc = "s_loop",
                                   !.fused = IF t = "t1" THEN fused
                                             ELSE sorted_by_score_desc(Reverse(fused))]]
    /\ UNCHANGED <<engine_vars, last, fz, bn, cl, rc, sw, eg>>

\* lines 270-277: the fusion reads self.fusion_strategy and the weights
SearchFuseStep(t) ==
    /\ th[t].pc = "s_fuse"
    /\ th' = [th EXCEPT ![t] =
                IF ~KnownStrategy(fusion_strategy)
                THEN [@ EXCEPT !.pc = "done", !.outcome = "ValueError"]
                ELSE [@ EXCEPT !.pc = "s_loop",
                               !.fused = Fuse(fusion_strategy, th[t].semantic_results,
                                              th[t].keyword_results)]]
    /\ UNCHANGED <<engine_vars, last, fz, bn, cl, rc, sw, eg>>

\* one pass of the loop of lines 281-300 on the list self.items refers to now, and
\* where the call stands after it; pos counts the fused candidates already visited
LoopPass(t, its) ==
    LET c == th[t]
    IN  IF c.pos >= Len(c.fused)
        THEN [c EXCEPT !.pc = "done", !.outcome = "ok"]
        ELSE LET pass == FilterLoop(its, <<c.fused[c.pos + 1]>>, c.filters, ConcTopK, c.results)
                 broke == pass.results # c.results /\ Len(pass.results) >= ConcTopK
             IN  IF pass.outcome # "ok"
                 THEN [c EXCEPT !.pc = "done", !.outcome = pass.outcome, !.results = <<>>]
                 ELSE IF broke \/ c.pos + 1 = Len(c.fused)
                 THEN [c EXCEPT !.pc = "done", !.outcome = "ok", !.results = pass.results,
                                !.pos = @ + 1]
                 ELSE [c EXCEPT !.results = pass.results, !.pos = @ + 1]

\* a pass that also drops from self.items the items its filter rejects
SearchLoopStepDroppingRejected(t) ==
    /\ th[t].pc = "s_loop"
    /\ th' = [th EXCEPT ![t] = LoopPass(t, items)]
    /\ items' = SelectSeq(items, LAMBDA item : Matches(item, th[t].filters))
    /\ UNCHANGED <<fusion_strategy, embeddings, vector_index, bm25, tokenized_corpus,
                   last, fz, bn, cl, rc, sw, eg>>

\* lines 281-300: one pass of the loop; line 282 reads self.items again on every pass
SearchLoopStep(t) ==
    /\ th[t].pc = "s_loop"
    /\ th' = [th EXCEPT ![t] = LoopPass(t, items)]
    /\ UNCHANGED <<engine_vars, last, fz, bn, cl, rc, sw, eg>>

\* thread t calls add_items(new_items)
CallAddItems(t, new_items) ==
    /\ th[t].pc = "idle"
    /\ th' = [th EXCEPT ![t] =
                [ThreadIdle EXCEPT !.pc = "a_items", !.op = "add_items", !.new_items = new_items,
                                   !.during = InFlight(t)]]
    /\ UNCHANGED <<engine_vars, last, fz, bn, cl, rc, sw, eg>>

\* lines 96-97: self.items = items; texts = [...]
AddItemsAssignStep(t) ==
    /\ th[t].pc = "a_items"
    /\ items' = th[t].new_items
    /\ th' = MarkSearches([th EXCEPT ![t] = [@ EXCEPT !.pc = "a_encode",
                                                      !.texts = TextsOf(th[t].new_items)]], t)
    /\ UNCHANGED <<fusion_strategy, embeddings, vector_index, bm25, tokenized_corpus,
                   last, fz, bn, cl, rc, sw, eg>>

\* lines 101-107: self.embeddings = self.model.encode(texts, ...)
AddItemsEncodeStep(t) ==
    /\ th[t].pc = "a_encode"
    /\ embeddings' = [is_none |-> FALSE, rows |-> EmbedAll(th[t].texts)]
    /\ th' = MarkSearches([th EXCEPT ![t] = [@ EXCEPT !.pc = "a_index_new"]], t)
    /\ UNCHANGED <<fusion_strategy, items, vector_index, bm25, tokenized_corpus,
                   last, fz, bn, cl, rc, sw, eg>>

\* lines 111-112: self.vector_index = faiss.IndexFlatIP(dimension), a new empty index
\* object (a thread makes one call, so its name names the object)
AddItemsNewIndexStep(t) ==
    /\ th[t].pc = "a_index_new"
    /\ vector_index' = [is_none |-> FALSE, xb |-> <<>>, obj |-> t]
    /\ th' = MarkSearches([th EXCEPT ![t] = [@ EXCEPT !.pc = "a_index_load"]], t)
    /\ UNCHANGED <<fusion_strategy, items, embeddings, bm25, tokenized_corpus,
                   last, fz, bn, cl, rc, sw, eg>>

\* line 113, first read: self.vector_index.add takes the object the field refers to
AddItemsIndexLoadStep(t) ==
    /\ th[t].pc = "a_index_load"
    /\ th' = MarkSearches([th EXCEPT ![t] = [@ EXCEPT !.pc = "a_embeddings_load",
                                                      !.index_ref = vector_index.obj]], t)
    /\ UNCHANGED <<engine_vars, last, fz, bn, cl, rc, sw, eg>>

\* line 113, second read: self.embeddings.astype(np.float32) copies the field's rows
AddItemsEmbeddingsLoadStep(t) ==
    /\ th[t].pc = "a_embeddings_load"
    /\ th' = MarkSearches([th EXCEPT ![t] = [@ EXCEPT !.pc = "a_index_add",
                                                      !.embeddings_arg = embeddings.rows]], t)
    /\ UNCHANGED <<engine_vars, last, fz, bn, cl, rc, sw, eg>>

\* line 113, the call: the rows go to the object read before; when the field refers
\* to another object by now, that object is left as it is
AddItemsIndexAddStep(t) ==
    /\ th[t].pc = "a_index_add"
    /\ vector_index' = IF vector_index.obj = th[t].index_ref
                       THEN [vector_index EXCEPT !.xb = @ \o th[t].embeddings_arg]
                       ELSE vector_index
    /\ th' = MarkSearches([th EXCEPT ![t] = [@ EXCEPT !.pc = "a_tokenize"]], t)
    /\ UNCHANGED <<fusion_strategy, items, embeddings, bm25, tokenized_corpus,
                   last, fz, bn, cl, rc, sw, eg>>

\* line 117: self.tokenized_corpus = [self._tokenize(text) for text in texts]
AddItemsTokenizeStep(t) ==
    /\ th[t].pc = "a_tokenize"
    /\ tokenized_corpus' = TokenizeAll(th[t].texts)
    /\ th' = MarkSearches([th EXCEPT ![t] = [@ EXCEPT !.pc = "a_bm25_load"]], t)
    /\ UNCHANGED <<fusion_strategy, items, embeddings, vector_index, bm25,
                   last, fz, bn, cl, rc, sw, eg>>

\* line 118, the argument: BM25Okapi(self.tokenized_corpus) reads the field again
AddItemsBm25LoadStep(t) ==
    /\ th[t].pc = "a_bm25_load"
    /\ th' = MarkSearches([th EXCEPT ![t] = [@ EXCEPT !.pc = "a_bm25",
                                                      !.bm25_arg = tokenized_corpus]], t)
    /\ UNCHANGED <<engine_vars, last, fz, bn, cl, rc, sw, eg>>

\* line 118, the constructor and the assignment: self.bm25 = BM25Okapi(<the list read>)
AddItemsBm25Step(t) ==
    /\ th[t].pc = "a_bm25"
    /\ IF BM25Raises(th[t].bm25_arg)
       THEN /\ th' = MarkSearches([th EXCEPT ![t] = [@ EXCEPT !.pc = "done",
                                                    !.outcome = "ZeroDivisionError"]], t)
            /\ UNCHANGED bm25
       ELSE /\ bm25' = BM25Okapi(th[t].bm25_arg)
            /\ th' = MarkSearches([th EXCEPT ![t] = [@ EXCEPT !.pc = "done",
                                                    !.outcome = "ok"]], t)
    /\ UNCHANGED <<fusion_strategy, items, embeddings, vector_index, tokenized_corpus,
                   last, fz, bn, cl, rc, sw, eg>>

NextConc ==
    \E t \in Threads :
        \/ \E query \in ConcQueries, filters \in ConcFilters : CallSearch(t, query, filters)
        \/ SearchSemanticStep(t)
        \/ SearchKeywordStep(t)
        \/ SearchFuseStep(t)
        \/ SearchLoopStep(t)
        \/ \E new_items \in ConcCorpora : CallAddItems(t, new_items)
        \/ AddItemsAssignStep(t)
        \/ AddItemsEncodeStep(t)
        \/ AddItemsNewIndexStep(t)
        \/ AddItemsIndexLoadStep(t)
        \/ AddItemsEmbeddingsLoadStep(t)
        \/ AddItemsIndexAddStep(t)
        \/ AddItemsTokenizeStep(t)
        \/ AddItemsBm25LoadStep(t)
        \/ AddItemsBm25Step(t)

SpecConc == InitConc /\ [][NextConc]_vars

-----------------------------------------------------------------------------
(* SimilarityBenchmarker: ground truth and recall *)

\* columns of the ground truth (k = 100 in _compute_ground_truth), scaled down
GtK == 3
\* neighbours benchmark_exact asks for (k = 10), scaled down
ExactK == 2

RecallDb1 == <<<<3, 4>>>>
RecallDb2 == <<<<5, 0>>, <<3, 4>>>>
RecallDb3 == <<<<3, 4>>, <<5, 0>>, <<3, 4>>>>
RecallDb4 == <<<<5, 0>>, <<3, 4>>, <<0, 5>>, <<4, 3>>>>
RecallDatabases == {RecallDb1, RecallDb2, RecallDb3, RecallDb4}
RecallQuerySets == {<<<<4, 3>>>>, <<<<0, 5>>, <<5, 0>>>>}

\* index.search(queries, k): the label rows
ExactNeighbours(database, queries, k) ==
    [q \in 1..Len(queries) |->
        LET found == IndexFlatIP_search(database, queries[q], k)
        IN  [p \in 1..k |-> found[p][1]]]

\* _compute_ground_truth (lines 79-85)
_compute_ground_truth(database, queries) == ExactNeighbours(database, queries, GtK)

\* rows of width GtK as an approximate index returns them: distinct labels of the
\* database, then -1 for the neighbours it did not find
LabelRows(n) ==
    {row \in [1..GtK -> (0..(n - 1)) \cup {-1}] :
        /\ \A i, j \in 1..GtK : (i < j /\ row[i] = row[j]) => row[i] = -1
        /\ \A i \in 1..(GtK - 1) : row[i] = -1 => row[i + 1] = -1}

\* recall of one query (lines 341-344); the division raises for an empty truth_k
RecallOfQuery(pred, truth, k) ==
    LET pred_k == Range(Prefix(pred, k))
        truth_k == Range(Prefix(truth, k))
    IN  Rat(Cardinality(pred_k \cap truth_k), Cardinality(truth_k))

RECURSIVE RSum(_)
RSum(s) == IF s = <<>> THEN RZero ELSE RAdd(Head(s), RSum(Tail(s)))

\* _compute_recall (lines 324-347): zip stops at the shorter argument, np.mean
_compute_recall(predicted, ground_truth, k) ==
    LET rows == IF Len(predicted) < Len(ground_truth) THEN Len(predicted) ELSE Len(ground_truth)
        recalls == [q \in 1..rows |-> RecallOfQuery(predicted[q], ground_truth[q], k)]
    IN  RDiv(RSum(recalls), RInt(rows))

RcNew ==
    [pc |-> "new", database |-> <<>>, queries |-> <<>>, ground_truth |-> <<>>,
     predicted |-> <<>>, k |-> 0, recall |-> RZero, exact_result |-> <<>>]

InitRecall ==
    /\ sw = SwIdle
    /\ eg = EgIdle
    /\ fusion_strategy = "weighted"
    /\ items = <<>>
    /\ embeddings = NoEmbeddings
    /\ vector_index = NoIndex
    /\ bm25 = NoBM25
    /\ tokenized_corpus = <<>>
    /\ last = NoCall
    /\ fz = FzIdle
    /\ bn = BnIdle
    /\ th = ThIdle
    /\ cl = ClIdle
    /\ \E database \in RecallDatabases, queries \in RecallQuerySets :
          rc = [RcNew EXCEPT !.database = database, !.queries = queries]

\* SimilarityBenchmarker(database, queries): no ground truth given, so it is computed
Construct ==
    /\ rc.pc = "new"
    /\ rc' = [rc EXCEPT !.pc = "ready",
                        !.ground_truth = _compute_ground_truth(rc.database, rc.queries)]
    /\ UNCHANGED <<engine_vars, last, fz, bn, th, cl, sw, eg>>

\* self._compute_recall(all_indices, self.ground_truth, k) as the sweeps call it, on
\* the rows an approximate index returned for k = 100
ComputeRecall(predicted, k) ==
    /\ rc.pc = "ready"
    /\ Len(predicted) = Len(rc.queries)
    /\ rc' = [rc EXCEPT !.pc = "recall_done", !.predicted = predicted, !.k = k,
                        !.recall = _compute_recall(predicted, rc.ground_truth, k)]
    /\ UNCHANGED <<engine_vars, last, fz, bn, th, cl, sw, eg>>

\* benchmark_exact (lines 87-118)
BenchmarkExact ==
    /\ rc.pc = "ready"
    /\ rc' = [rc EXCEPT !.pc = "exact_done", !.exact_result = ExactResult(Len(rc.queries))]
    /\ UNCHANGED <<engine_vars, last, fz, bn, th, cl, sw, eg>>

NextRecall ==
    \/ Construct
    \/ /\ rc.pc = "ready"
       /\ \E predicted \in [1..Len(rc.queries) -> LabelRows(Len(rc.database))], k \in 1..GtK :
             ComputeRecall(predicted, k)
    \/ BenchmarkExact

SpecRecall == InitRecall /\ [][NextRecall]_vars

-----------------------------------------------------------------------------
(* SimilarityBenchmarker statement by statement: the constructor, benchmark_exact,
   the three sweeps with their query loops, and run_all_benchmarks *)

\* a database in which two vectors are equally near to a query
SweepDbTies == <<<<5, 0>>, <<3, 4>>, <<3, 4>>>>
SweepDatabases == {RecallDb2, SweepDbTies}
SweepQuerySets == {<<<<4, 3>>>>, <<<<0, 5>>, <<5, 0>>>>}

\* the rows a caller can hand over as ground truth for one query: a ranking of the
\* database labels (the constructor takes the array as it is, whatever metric or
\* tie order it was computed with), then -1
RankingRows(database) ==
    {row \in LabelRows(Len(database)) :
        \A l \in 0..(Len(database) - 1) : \E i \in 1..GtK : row[i] = l}

\* the ground_truth argument; <<>> stands for None
GroundTruthArgs(database, queries) ==
    {<<>>} \cup [1..Len(queries) -> RankingRows(database)]

\* index.search(query.reshape(1, -1), k=100)[1][0] on an approximate index: the exact
\* neighbours, or those without the farthest one when the index misses it
AnnRow(database, query, lossy) ==
    LET exact == ExactNeighbours(database, <<query>>, GtK)[1]
        found == Cardinality({i \in 1..GtK : exact[i] # -1})
    IN  IF lossy /\ found > 0
        THEN SubSeq(exact, 1, found - 1) \o [p \in 1..(GtK - found + 1) |-> -1]
        ELSE exact

SwNoIndex == [id |-> 0, build |-> <<>>, query_param |-> 0, lossy |-> FALSE]

SwNew ==
    [pc |-> "new", database |-> <<>>, queries |-> <<>>, ground_truth |-> <<>>,
     gt_given |-> FALSE, gt_computations |-> 0,
     caller |-> "none", stage |-> "none", algorithm |-> "none", outer |-> <<>>,
     inner |-> <<>>, i |-> 0, j |-> 0, q |-> 0, index |-> SwNoIndex, builds |-> 0,
     queried |-> <<>>, all_indices |-> <<>>, results |-> <<>>, all_results |-> <<>>,
     returned |-> <<>>]

InitSweep ==
    /\ fusion_strategy = "weighted"
    /\ items = <<>>
    /\ embeddings = NoEmbeddings
    /\ vector_index = NoIndex
    /\ bm25 = NoBM25
    /\ tokenized_corpus = <<>>
    /\ last = NoCall
    /\ fz = FzIdle
    /\ bn = BnIdle
    /\ th = ThIdle
    /\ cl = ClIdle
    /\ rc = RcIdle
    /\ eg = EgIdle
    /\ \E database \in SweepDatabases, queries \in SweepQuerySets :
          sw = [SwNew EXCEPT !.database = database, !.queries = queries]

\* SimilarityBenchmarker(database, queries, ground_truth) (lines 53-77)
SwConstruct(ground_truth) ==
    /\ sw.pc = "new"
    /\ sw' = IF ground_truth = <<>>
             THEN [sw EXCEPT !.pc = "idle", !.gt_computations = @ + 1,
                             !.ground_truth = _compute_ground_truth(sw.database, sw.queries)]
             ELSE [sw EXCEPT !.pc = "idle", !.gt_given = TRUE, !.ground_truth = ground_truth]
    /\ UNCHANGED <<engine_vars, last, fz, bn, th, cl, rc, eg>>

\* the BenchmarkResult of benchmark_exact (lines 87-118) with the index it was measured
\* on, the queries it ran and the rows index.search(query, k=10) returned
SwExactResult(b) ==
    [algorithm |-> "Exact", parameters |-> <<>>,
     recall_at_10 |-> ExactResult(Len(b.queries)).recall_at_10,
     recall_at_100 |-> ExactResult(Len(b.queries)).recall_at_100,
     measured_on |-> b.builds + 1,
     queried |-> [q \in 1..Len(b.queries) |-> q],
     all_indices |-> ExactNeighbours(b.database, b.queries, ExactK)]

\* the BenchmarkResult a sweep appends (lines 165-180, 233-248, 303-318)
SwResult(b) ==
    [algorithm |-> b.algorithm,
     parameters |-> Parameters(b.algorithm, b.index.build, b.index.query_param),
     recall_at_10 |-> _compute_recall(b.all_indices, b.ground_truth, ExactK),
     recall_at_100 |-> _compute_recall(b.all_indices, b.ground_truth, GtK),
     measured_on |-> b.index.id,
     queried |-> b.queried,
     all_indices |-> b.all_indices]

SwStartSweep(b, caller, stage, algorithm, outer, inner) ==
    [b EXCEPT !.pc = IF outer = <<>> THEN "sweep_done" ELSE "build",
              !.caller = caller, !.stage = stage, !.algorithm = algorithm,
              !.outer = outer, !.inner = inner, !.i = 1, !.j = 1, !.q = 0,
              !.results = <<>>]

\* an exception leaves the call: its local lists are gone
SwRaised(b) ==
    [b EXCEPT !.pc = "raised", !.results = <<>>, !.all_results = <<>>,
              !.queried = <<>>, !.all_indices = <<>>]

\* a direct call of benchmark_exact
SwBenchmarkExact ==
    /\ sw.pc = "idle"
    /\ sw' = [sw EXCEPT !.pc = "returned", !.builds = @ + 1,
                        !.returned = <<SwExactResult(sw)>>]
    /\ UNCHANGED <<engine_vars, last, fz, bn, th, cl, rc, eg>>

SwCallBenchmarkHnsw(M_values, ef_construction_values, ef_search_values) ==
    /\ sw.pc = "idle"
    /\ sw' = SwStartSweep(sw, "direct", "hnsw", "HNSW",
                          HnswOuter(M_values, ef_construction_values), ef_search_values)
    /\ UNCHANGED <<engine_vars, last, fz, bn, th, cl, rc, eg>>

SwCallBenchmarkIvf(nlist_values, nprobe_values) ==
    /\ sw.pc = "idle"
    /\ sw' = SwStartSweep(sw, "direct", "ivf", "IVF", IvfOuter(nlist_values), nprobe_values)
    /\ UNCHANGED <<engine_vars, last, fz, bn, th, cl, rc, eg>>

SwCallBenchmarkIvfpq(nlist, m, nbits, nprobe_values) ==
    /\ sw.pc = "idle"
    /\ sw' = SwStartSweep(sw, "direct", "ivfpq", "IVF+PQ", IvfpqOuter(nlist, m, nbits),
                          nprobe_values)
    /\ UNCHANGED <<engine_vars, last, fz, bn, th, cl, rc, eg>>

\* run_all_benchmarks (lines 349-368): all_results.append(self.benchmark_exact()), then
\* benchmark_hnsw() with its defaults
SwCallRunAllBenchmarks ==
    /\ sw.pc = "idle"
    /\ sw' = SwStartSweep([sw EXCEPT !.builds = @ + 1,
                                     !.all_results = <<SwExactResult(sw)>>],
                          "run_all", "hnsw", "HNSW", HnswDefaultOuter, HnswDefaultInner)
    /\ UNCHANGED <<engine_vars, last, fz, bn, th, cl, rc, eg>>

\* build_start ... build_time: a new index object, trained and filled
SwBuild ==
    /\ sw.pc = "build"
    /\ \E lossy \in BOOLEAN :
          sw' = IF BuildRaises(sw.algorithm, sw.outer[sw.i], Len(sw.database))
                THEN SwRaised(sw)
                ELSE [sw EXCEPT !.builds = @ + 1,
                                !.index = [id |-> sw.builds + 1, build |-> sw.outer[sw.i],
                                           query_param |-> 0, lossy |-> lossy],
                                !.j = 1,
                                !.pc = IF sw.inner # <<>> THEN "set_param"
                                       ELSE IF sw.i < Len(sw.outer) THEN "build"
                                       ELSE "sweep_done",
                                !.i = IF sw.inner # <<>> THEN @ ELSE @ + 1]
    /\ UNCHANGED <<engine_vars, last, fz, bn, th, cl, rc, eg>>

\* head of the inner loop: index.hnsw.efSearch = ... / index.nprobe = ...,
\* latencies = [], all_indices = []
SwSetParam ==
    /\ sw.pc = "set_param"
    /\ sw' = [sw EXCEPT !.index.query_param = sw.inner[sw.j],
                        !.queried = <<>>, !.all_indices = <<>>, !.q = 1,
                        !.pc = IF sw.queries = <<>> THEN "append" ELSE "query"]
    /\ UNCHANGED <<engine_vars, last, fz, bn, th, cl, rc, eg>>

\* a query loop that leaves after its first query
SwQuerySkippingRest ==
    /\ sw.pc = "query"
    /\ sw' = IF SearchRaises(sw.algorithm, sw.index.query_param) THEN SwRaised(sw)
             ELSE [sw EXCEPT !.all_indices = Append(@, AnnRow(sw.database, sw.queries[sw.q],
                                                              sw.index.lossy)),
                             !.queried = Append(@, sw.q),
                             !.q = @ + 1,
                             !.pc = "append"]
    /\ UNCHANGED <<engine_vars, last, fz, bn, th, cl, rc, eg>>

\* one pass of `for query in self.queries`: search, record latency and indices
SwQuery ==
    /\ sw.pc = "query"
    /\ sw' = IF SearchRaises(sw.algorithm, sw.index.query_param) THEN SwRaised(sw)
             ELSE [sw EXCEPT !.all_indices = Append(@, AnnRow(sw.database, sw.queries[sw.q],
                                                              sw.index.lossy)),
                             !.queried = Append(@, sw.q),
                             !.q = @ + 1,
                             !.pc = IF sw.q = Len(sw.queries) THEN "append" ELSE "query"]
    /\ UNCHANGED <<engine_vars, last, fz, bn, th, cl, rc, eg>>

\* after the query loop: the recalls against self.ground_truth, results.append(...)
SwAppend ==
    /\ sw.pc = "append"
    /\ LET last_inner == sw.j = Len(sw.inner)
           last_outer == sw.i = Len(sw.outer)
       IN  sw' = [sw EXCEPT !.results = Append(@, SwResult(sw)),
                            !.j = IF last_inner THEN 1 ELSE @ + 1,
                            !.i = IF last_inner THEN @ + 1 ELSE @,
                            !.pc = IF ~last_inner THEN "set_param"
                                   ELSE IF last_outer THEN "sweep_done" ELSE "build"]
    /\ UNCHANGED <<engine_vars, last, fz, bn, th, cl, rc, eg>>

\* return results; in run_all_benchmarks, all_results.extend(...) and the next sweep
SwSweepReturn ==
    /\ sw.pc = "sweep_done"
    /\ sw' = IF sw.caller = "direct"
             THEN [sw EXCEPT !.pc = "returned", !.returned = sw.results]
             ELSE LET all == sw.all_results \o sw.results
                      b == [sw EXCEPT !.all_results = all]
                  IN  CASE sw.stage = "hnsw" ->
                             SwStartSweep(b, "run_all", "ivf", "IVF", IvfDefaultOuter,
                                          IvfDefaultInner)
                        [] sw.stage = "ivf" ->
                             SwStartSweep(b, "run_all", "ivfpq", "IVF+PQ", IvfpqDefaultOuter,
                                          IvfpqDefaultInner)
                        [] OTHER -> [b EXCEPT !.pc = "returned", !.returned = all,
                                              !.results = <<>>]
    /\ UNCHANGED <<engine_vars, last, fz, bn, th, cl, rc, eg>>

NextSweep ==
    \/ /\ sw.pc = "new"
       /\ \E ground_truth \in GroundTruthArgs(sw.database, sw.queries) :
             SwConstruct(ground_truth)
    \/ SwBenchmarkExact
    \/ \E M_values \in {<<16>>, <<16, 32>>}, ef_search_values \in {<<50>>, <<50, 100>>} :
          SwCallBenchmarkHnsw(M_values, <<200>>, ef_search_values)
    \/ \E nlist_values \in {<<1>>, <<1, 2>>, <<4>>}, nprobe_values \in {<<1>>, <<1, 2>>, <<0>>} :
          SwCallBenchmarkIvf(nlist_values, nprobe_values)
    \/ \E nprobe_values \in {<<1>>, <<1, 2>>} : SwCallBenchmarkIvfpq(1, 2, 1, nprobe_values)
    \/ SwCallRunAllBenchmarks
    \/ SwBuild
    \/ SwSetParam
    \/ SwQuery
    \/ SwAppend
    \/ SwSweepReturn

SpecSweep == InitSweep /\ [][NextSweep]_vars

-----------------------------------------------------------------------------
(* CLIPSearchEngine: build_index, search, save_index, load_index and the two files
   <path>.index and <path>.metadata.json *)

\* Python values of the metadata dicts
PyStr(x) == [kind |-> "str", val |-> x]
PyTuple(x) == [kind |-> "tuple", val |-> x]
PyList(x) == [kind |-> "list", val |-> x]
PySet(x) == [kind |-> "set", val |-> x]
PyNone == [kind |-> "None", val |-> <<>>]

\* json.dump then json.load of a value: a tuple comes back as a list
JsonRoundTrip(v) == IF v.kind = "tuple" THEN PyList(v.val) ELSE v
\* json.dump raises TypeError for a set
JsonSerializable(v) == v.kind # "set"

JsonRoundTripItems(its) ==
    [i \in 1..Len(its) |->
        [path |-> its[i].path,
         metadata |-> [k \in DOMAIN its[i].metadata |-> JsonRoundTrip(its[i].metadata[k])]]]
JsonSerializableItems(its) ==
    \A i \in 1..Len(its) : \A k \in DOMAIN its[i].metadata : JsonSerializable(its[i].metadata[k])

MetaClothing == [category |-> PyStr("clothing")]
MetaSized == [category |-> PyStr("clothing"), size |-> PyTuple(<<640, 480>>)]
MetaTagged == [category |-> PyStr("toys"), tags |-> PySet({"new"})]

\* build_index arguments: image_paths and metadata (<<>> stands for None)
ClipBuilds ==
    {[image_paths |-> <<"a.jpg">>, metadata |-> <<MetaClothing>>],
     [image_paths |-> <<"a.jpg", "b.jpg">>, metadata |-> <<MetaClothing, MetaSized>>],
     [image_paths |-> <<"b.jpg", "a.jpg">>, metadata |-> <<MetaClothing, MetaTagged>>],
     [image_paths |-> <<"a.jpg", "b.jpg">>, metadata |-> <<>>]}

ClipQueries == {"red jacket", "blue dress"}
ClipTopKs == {1, 2}
ClipFilters ==
    {<<>>, <<<<"category", PyStr("clothing")>>>>, <<<<"size", PyTuple(<<640, 480>>)>>>>}

\* the CLIP model, a fixed table of vectors of norm 5
ClipEncodeImage(path) == IF path = "a.jpg" THEN <<5, 0>> ELSE <<3, 4>>
ClipEncodeText(query) == IF query = "red jacket" THEN <<4, 3>> ELSE <<0, 5>>

\* item["metadata"].get(k)
MetaGet(metadata, k) == IF k \in DOMAIN metadata THEN metadata[k] ELSE PyNone

\* all(item["metadata"].get(k) == v for k, v in filters.items())
ClipMatches(item, filters) ==
    \A i \in 1..Len(filters) : MetaGet(item.metadata, filters[i][1]) = filters[i][2]

\* the loop of lines 223-243 over the (label, score) pairs faiss returned
RECURSIVE ClipLoop(_, _, _, _, _)
ClipLoop(its, found, filters, top_k, results) ==
    IF found = <<>> THEN [outcome |-> "ok", results |-> results]
    ELSE LET idx == Head(found)[1] IN
         IF ~IndexInRange(its, idx) THEN [outcome |-> "IndexError", results |-> <<>>]
         ELSE IF filters # <<>> /\ ~ClipMatches(ItemAt(its, idx), filters)
              THEN ClipLoop(its, Tail(found), filters, top_k, results)
         ELSE LET item == ItemAt(its, idx)
                  appended == Append(results, [path |-> item.path, score |-> Head(found)[2],
                                               metadata |-> item.metadata])
              IN  IF Len(appended) >= top_k
                  THEN [outcome |-> "ok", results |-> appended]
                  ELSE ClipLoop(its, Tail(found), filters, top_k, appended)

\* CLIPSearchEngine.search (lines 193-245) on an engine whose fields are given
clip_search(index, its, query, top_k, filters) ==
    IF index.is_none THEN [outcome |-> "ValueError", results |-> <<>>]
    ELSE LET k == IF filters # <<>> THEN top_k * 2 ELSE top_k
         IN  ClipLoop(its, IndexFlatIP_search(index.xb, ClipEncodeText(query), k),
                      filters, top_k, <<>>)

NoFile == [state |-> "missing", content |-> <<>>]
NoClipCall == [op |-> "none", outcome |-> "none", results |-> <<>>, before |-> <<>>]

\* a new engine (lines 64-65) and no files
ClipNew ==
    [index |-> NoIndex, items |-> <<>>, index_file |-> NoFile, metadata_file |-> NoFile,
     saved |-> <<>>, complete |-> FALSE, last |-> NoClipCall]

InitClip ==
    /\ sw = SwIdle
    /\ eg = EgIdle
    /\ fusion_strategy = "weighted"
    /\ items = <<>>
    /\ embeddings = NoEmbeddings
    /\ vector_index = NoIndex
    /\ bm25 = NoBM25
    /\ tokenized_corpus = <<>>
    /\ last = NoCall
    /\ fz = FzIdle
    /\ bn = BnIdle
    /\ th = ThIdle
    /\ rc = RcIdle
    /\ cl = ClipNew

ClipCall(op, outcome, results) ==
    [op |-> op, outcome |-> outcome, results |-> results,
     before |-> [index |-> cl.index, items |-> cl.items]]

\* build_index(image_paths, metadata) (lines 150-191)
ClipBuildIndex(b) ==
    /\ cl.last = NoClipCall
    /\ cl' = [cl EXCEPT
                !.index = [is_none |-> FALSE,
                           xb |-> [i \in 1..Len(b.image_paths) |-> ClipEncodeImage(b.image_paths[i])]],
                !.items = [i \in 1..Len(b.image_paths) |->
                              [path |-> b.image_paths[i],
                               metadata |-> IF b.metadata # <<>> THEN b.metadata[i] ELSE <<>>]],
                !.last = ClipCall("build_index", "ok", <<>>)]
    /\ UNCHANGED <<engine_vars, last, fz, bn, th, rc, sw, eg>>

\* search(query, top_k, filters)
ClipSearch(query, top_k, filters) ==
    /\ cl.last = NoClipCall
    /\ LET r == clip_search(cl.index, cl.items, query, top_k, filters)
       IN  cl' = [cl EXCEPT !.last = ClipCall("search", r.outcome, r.results)]
    /\ UNCHANGED <<engine_vars, last, fz, bn, th, rc, sw, eg>>

\* save_index(path) (lines 247-256): write_index, then open(..., 'w') and json.dump,
\* which raises partway for a value JSON cannot hold
ClipSaveIndex ==
    /\ cl.last = NoClipCall
    /\ cl' = IF cl.index.is_none
             THEN [cl EXCEPT !.last = ClipCall("save_index", "TypeError", <<>>)]
             ELSE IF ~JsonSerializableItems(cl.items)
             THEN [cl EXCEPT !.index_file = [state |-> "written", content |-> cl.index.xb],
                             !.metadata_file = [state |-> "partial", content |-> <<>>],
                             !.complete = FALSE,
                             !.last = ClipCall("save_index", "TypeError", <<>>)]
             ELSE [cl EXCEPT !.index_file = [state |-> "written", content |-> cl.index.xb],
                             !.metadata_file = [state |-> "written",
                                                content |-> JsonRoundTripItems(cl.items)],
                             !.saved = [index |-> cl.index, items |-> cl.items],
                             !.complete = TRUE,
                             !.last = ClipCall("save_index", "ok", <<>>)]
    /\ UNCHANGED <<engine_vars, last, fz, bn, th, rc, sw, eg>>

\* the process stops between line 252 and line 253; a new process starts with a new engine
ClipSaveIndexInterrupted ==
    /\ cl.last = NoClipCall
    /\ ~cl.index.is_none
    /\ cl' = [ClipNew EXCEPT !.index_file = [state |-> "written", content |-> cl.index.xb],
                             !.metadata_file = cl.metadata_file,
                             !.saved = cl.saved]
    /\ UNCHANGED <<engine_vars, last, fz, bn, th, rc, sw, eg>>

\* load_index(path) (lines 258-267): read_index, then open and json.load
ClipLoadIndex ==
    /\ cl.last = NoClipCall
    /\ cl' = IF cl.index_file.state = "missing"
             THEN [cl EXCEPT !.last = ClipCall("load_index", "RuntimeError", <<>>)]
             ELSE LET index == [is_none |-> FALSE, xb |-> cl.index_file.content]
                  IN  CASE cl.metadata_file.state = "missing" ->
                             [cl EXCEPT !.index = index,
                                        !.last = ClipCall("load_index", "FileNotFoundError", <<>>)]
                        [] cl.metadata_file.state = "partial" ->
                             [cl EXCEPT !.index = index,
                                        !.last = ClipCall("load_index", "JSONDecodeError", <<>>)]
                        [] OTHER ->
                             [cl EXCEPT !.index = index, !.items = cl.metadata_file.content,
                                        !.last = ClipCall("load_index", "ok", <<>>)]
    /\ UNCHANGED <<engine_vars, last, fz, bn, th, rc, sw, eg>>

\* the caller takes the outcome of the call
ClipReturn ==
    /\ cl.last # NoClipCall
    /\ cl' = [cl EXCEPT !.last = NoClipCall]
    /\ UNCHANGED <<engine_vars, last, fz, bn, th, rc, sw, eg>>

NextClip ==
    \/ \E b \in ClipBuilds : ClipBuildIndex(b)
    \/ \E query \in ClipQueries, top_k \in ClipTopKs, filters \in ClipFilters :
          ClipSearch(query, top_k, filters)
    \/ ClipSaveIndex
    \/ ClipSaveIndexInterrupted
    \/ ClipLoadIndex
    \/ ClipReturn

SpecClip == InitClip /\ [][NextClip]_vars

-----------------------------------------------------------------------------
(* EmbeddingGenerator (embedding-generation-pipeline.py): encode_single and
   encode_batch over the Redis cache, called from two threads.  A step is one
   statement that reads or writes the cache or calls the model; the Redis commands
   are atomic. *)

\* longest list handed to encode_batch
MaxBatch == 3

EgThreads == {"t1", "t2"}
EgTexts == {"a", "b"}
EgBatches == SeqsUpTo(EgTexts, MaxBatch)

\* EmbeddingConfig.model_name
ModelName == "sentence-transformers/all-MiniLM-L6-v2"

\* hashlib.md5(text.encode()).hexdigest()
Md5Hex(text) ==
    IF text = "a" THEN "0cc175b9c0f1b6a831c399e269772661"
    ELSE "92eb5ffee6ae2fec3ad71c777531578f"

\* f"emb:{self.config.model_name}:{text_hash}"
_get_cache_key(text) == <<"emb", ModelName, Md5Hex(text)>>

\* pickle.dumps and pickle.loads
PickleDumps(embedding) == <<"pickle", embedding>>
PickleLoads(bytes) == bytes[2]

\* self.model.encode(text, normalize_embeddings=True): a fixed table of unit vectors,
\* in fifths
EgModelEncode(text) == IF text = "a" THEN <<3, 4>> ELSE <<5, 0>>

\* Python's None
EgNone == <<>>

\* self.cache.get(key) and self.cache.setex(key, ttl, value) on the key-value store
RedisGet(cache, key) == IF key \in DOMAIN cache THEN cache[key] ELSE EgNone
RedisSetex(cache, key, value) ==
    [k \in DOMAIN cache \cup {key} |-> IF k = key THEN value ELSE cache[k]]

\* _get_cached_embedding (lines 91-102)
_get_cached_embedding(cache_enabled, cache, text) ==
    IF ~cache_enabled THEN EgNone
    ELSE LET cached == RedisGet(cache, _get_cache_key(text))
         IN  IF cached # EgNone THEN PickleLoads(cached) ELSE EgNone

\* _cache_embedding (lines 104-114): the store afterwards
_cache_embedding(cache_enabled, cache, text, embedding) ==
    IF ~cache_enabled THEN cache
    ELSE RedisSetex(cache, _get_cache_key(text), PickleDumps(embedding))

\* list.insert(idx, x) for idx >= 0 (0-based; past the end it appends)
ListInsert(list, idx, x) ==
    IF idx >= Len(list) THEN Append(list, x)
    ELSE SubSeq(list, 1, idx) \o <<x>> \o SubSeq(list, idx + 1, Len(list))

\* a merge that appends the computed embeddings after the cached ones
RECURSIVE MergeAppending(_, _, _)
MergeAppending(merged, uncached_indices, uncached_embeddings) ==
    IF uncached_indices = <<>> THEN merged
    ELSE MergeAppending(Append(merged, Head(uncached_embeddings)),
                        Tail(uncached_indices), Tail(uncached_embeddings))

\* for idx, emb in zip(uncached_indices, uncached_embeddings): embeddings.insert(idx, emb)
RECURSIVE Merge(_, _, _)
Merge(merged, uncached_indices, uncached_embeddings) ==
    IF uncached_indices = <<>> THEN merged
    ELSE Merge(ListInsert(merged, Head(uncached_indices), Head(uncached_embeddings)),
               Tail(uncached_indices), Tail(uncached_embeddings))

\* a thread that is in no call
EgThreadIdle ==
    [pc |-> "idle", op |-> "none", texts |-> <<>>, idx |-> 0, missed |-> FALSE,
     embeddings |-> <<>>, uncached_texts |-> <<>>, uncached_indices |-> <<>>,
     uncached_embeddings |-> <<>>, result |-> <<>>]

\* the store as earlier calls of the generator left it: any of the texts cached
CachedBefore(S) == [k \in {_get_cache_key(t) : t \in S} |->
                       PickleDumps(EgModelEncode(CHOOSE t \in S : _get_cache_key(t) = k))]

InitEmbed ==
    /\ fusion_strategy = "weighted"
    /\ items = <<>>
    /\ embeddings = NoEmbeddings
    /\ vector_index = NoIndex
    /\ bm25 = NoBM25
    /\ tokenized_corpus = <<>>
    /\ last = NoCall
    /\ fz = FzIdle
    /\ bn = BnIdle
    /\ th = ThIdle
    /\ cl = ClIdle
    /\ rc = RcIdle
    /\ sw = SwIdle
    /\ \E cache_enabled \in BOOLEAN, S \in SUBSET EgTexts :
          /\ (~cache_enabled => S = {})
          /\ eg = [cache_enabled |-> cache_enabled, cache |-> CachedBefore(S),
                   cache_at_start |-> CachedBefore(S), model_calls |-> <<>>,
                   t |-> [x \in EgThreads |-> EgThreadIdle]]

\* encode_single(text) begins
EgCallEncodeSingle(t, text) ==
    /\ eg.t[t].pc = "idle"
    /\ eg' = [eg EXCEPT !.t[t] = [EgThreadIdle EXCEPT !.pc = "single_get",
                                                      !.op = "encode_single",
                                                      !.texts = <<text>>]]
    /\ UNCHANGED <<engine_vars, last, fz, bn, th, cl, rc, sw>>

\* cached = self._get_cached_embedding(text); return cached if it is not None
EgSingleGet(t) ==
    /\ eg.t[t].pc = "single_get"
    /\ LET cached == _get_cached_embedding(eg.cache_enabled, eg.cache, eg.t[t].texts[1])
       IN  eg' = IF cached # EgNone
                 THEN [eg EXCEPT !.t[t].pc = "done", !.t[t].result = cached]
                 ELSE [eg EXCEPT !.t[t].pc = "single_encode", !.t[t].missed = TRUE]
    /\ UNCHANGED <<engine_vars, last, fz, bn, th, cl, rc, sw>>

\* embedding = self.model.encode(text, ...)
EgSingleEncode(t) ==
    /\ eg.t[t].pc = "single_encode"
    /\ eg' = [eg EXCEPT !.t[t].pc = "single_cache",
                        !.t[t].uncached_embeddings = <<EgModelEncode(eg.t[t].texts[1])>>,
                        !.model_calls = Append(@, eg.t[t].texts)]
    /\ UNCHANGED <<engine_vars, last, fz, bn, th, cl, rc, sw>>

\* an encode_single that returns without storing its embedding
EgSingleCacheNotStoring(t) ==
    /\ eg.t[t].pc = "single_cache"
    /\ eg' = [eg EXCEPT !.t[t].pc = "done",
                        !.t[t].result = eg.t[t].uncached_embeddings[1]]
    /\ UNCHANGED <<engine_vars, last, fz, bn, th, cl, rc, sw>>

\* self._cache_embedding(text, embedding); return embedding
EgSingleCache(t) ==
    /\ eg.t[t].pc = "single_cache"
    /\ eg' = [eg EXCEPT !.cache = _cache_embedding(eg.cache_enabled, eg.cache,
                                                   eg.t[t].texts[1],
                                                   eg.t[t].uncached_embeddings[1]),
                        !.t[t].pc = "done",
                        !.t[t].result = eg.t[t].uncached_embeddings[1]]
    /\ UNCHANGED <<engine_vars, last, fz, bn, th, cl, rc, sw>>

\* encode_batch(texts) begins: the three empty lists
EgCallEncodeBatch(t, texts) ==
    /\ eg.t[t].pc = "idle"
    /\ eg' = [eg EXCEPT !.t[t] = [EgThreadIdle EXCEPT
                                     !.pc = IF texts = <<>> THEN "batch_return"
                                            ELSE "batch_check",
                                     !.op = "encode_batch", !.texts = texts]]
    /\ UNCHANGED <<engine_vars, last, fz, bn, th, cl, rc, sw>>

\* one pass of the cache check loop (lines 162-168); idx counts from 0
EgBatchCheck(t) ==
    /\ eg.t[t].pc = "batch_check"
    /\ LET c == eg.t[t]
           text == c.texts[c.idx + 1]
           cached == _get_cached_embedding(eg.cache_enabled, eg.cache, text)
           hit == cached # EgNone
           uncached_texts == IF hit THEN c.uncached_texts ELSE Append(c.uncached_texts, text)
           last_pass == c.idx + 1 = Len(c.texts)
       IN  eg' = [eg EXCEPT
                    !.t[t].embeddings = IF hit THEN Append(@, cached) ELSE @,
                    !.t[t].uncached_texts = uncached_texts,
                    !.t[t].uncached_indices = IF hit THEN @ ELSE Append(@, c.idx),
                    !.t[t].missed = @ \/ ~hit,
                    !.t[t].idx = IF last_pass THEN 0 ELSE @ + 1,
                    !.t[t].pc = IF ~last_pass THEN "batch_check"
                                ELSE IF uncached_texts # <<>> THEN "batch_encode"
                                ELSE "batch_return"]
    /\ UNCHANGED <<engine_vars, last, fz, bn, th, cl, rc, sw>>

\* uncached_embeddings = self.model.encode(uncached_texts, ...)
EgBatchEncode(t) ==
    /\ eg.t[t].pc = "batch_encode"
    /\ eg' = [eg EXCEPT
                !.t[t].uncached_embeddings =
                    [i \in 1..Len(eg.t[t].uncached_texts) |->
                        EgModelEncode(eg.t[t].uncached_texts[i])],
                !.model_calls = Append(@, eg.t[t].uncached_texts),
                !.t[t].pc = "batch_cache"]
    /\ UNCHANGED <<engine_vars, last, fz, bn, th, cl, rc, sw>>

\* one pass of the loop that caches the new embeddings (lines 186-187)
EgBatchCache(t) ==
    /\ eg.t[t].pc = "batch_cache"
    /\ LET c == eg.t[t]
           last_pass == c.idx + 1 = Len(c.uncached_texts)
       IN  eg' = [eg EXCEPT
                    !.cache = _cache_embedding(eg.cache_enabled, eg.cache,
                                               c.uncached_texts[c.idx + 1],
                                               c.uncached_embeddings[c.idx + 1]),
                    !.t[t].idx = IF last_pass THEN 0 ELSE @ + 1,
                    !.t[t].pc = IF last_pass THEN "batch_merge" ELSE "batch_cache"]
    /\ UNCHANGED <<engine_vars, last, fz, bn, th, cl, rc, sw>>

\* the merge loop (lines 190-191)
EgBatchMerge(t) ==
    /\ eg.t[t].pc = "batch_merge"
    /\ eg' = [eg EXCEPT !.t[t].embeddings = Merge(@, eg.t[t].uncached_indices,
                                                  eg.t[t].uncached_embeddings),
                        !.t[t].pc = "batch_return"]
    /\ UNCHANGED <<engine_vars, last, fz, bn, th, cl, rc, sw>>

\* return np.array(embeddings)
EgBatchReturn(t) ==
    /\ eg.t[t].pc = "batch_return"
    /\ eg' = [eg EXCEPT !.t[t].pc = "done", !.t[t].result = eg.t[t].embeddings]
    /\ UNCHANGED <<engine_vars, last, fz, bn, th, cl, rc, sw>>

NextEmbed ==
    \E t \in EgThreads :
        \/ \E text \in EgTexts : EgCallEncodeSingle(t, text)
        \/ EgSingleGet(t)
        \/ EgSingleEncode(t)
        \/ EgSingleCache(t)
        \/ \E texts \in EgBatches : EgCallEncodeBatch(t, texts)
        \/ EgBatchCheck(t)
        \/ EgBatchEncode(t)
        \/ EgBatchCache(t)
        \/ EgBatchMerge(t)
        \/ EgBatchReturn(t)

SpecEmbed == InitEmbed /\ [][NextEmbed]_vars

-----------------------------------------------------------------------------
(* Properties of HybridSearchEngine, checked under Spec *)

Searched == last.op = "search"
Returned == last.op = "search" /\ last.outcome = "ok"

\* entries with equal score appear in strictly increasing item index order
TiesAscending(cands) ==
    \A i, j \in 1..Len(cands) :
        (i < j /\ cands[i][2] = cands[j][2]) => cands[i][1] < cands[j][1]

\* position of a result in the fused ranking
FusedPos(fused, result) == CHOOSE p \in 1..Len(fused) : Str(fused[p][1]) = result.id

InFusedOrder(fused, results) ==
    /\ \A i \in 1..Len(results) : \E p \in 1..Len(fused) : Str(fused[p][1]) = results[i].id
    /\ \A i, j \in 1..Len(results) :
          i < j => FusedPos(fused, results[i]) < FusedPos(fused, results[j])

\* the same call without a filter, on the engine as it is
Unfiltered ==
    search(fusion_strategy, items, vector_index, bm25,
           last.query, last.top_k, NoFilter, last.search_top_k)

\* C2: a search with a filter returns no more results than the same search without
\* one, and its results keep the relative order of the unfiltered fused ranking.
C2_FilterMonotone ==
    (Returned /\ last.filters # NoFilter) =>
        /\ Unfiltered.outcome = "ok"
        /\ Len(last.results) <= Len(Unfiltered.results)
        /\ InFusedOrder(Unfiltered.fused, last.results)

\* a filter dropped the best candidate of the unfiltered call and kept at least two
C2_Witness ==
    /\ Returned /\ last.filters # NoFilter
    /\ Len(last.results) >= 2
    /\ \A i \in 1..Len(last.results) : last.results[i].id # Str(-1)
    /\ last.results[1].id # Unfiltered.results[1].id

\* items, vector index and BM25 index describe the same corpus
Aligned ==
    /\ ~vector_index.is_none /\ ~bm25.is_none
    /\ Len(vector_index.xb) = Len(items)
    /\ bm25.corpus_size = Len(items)
    /\ Len(tokenized_corpus) = Len(items)
    /\ \A i \in 1..Len(items) :
          /\ vector_index.xb[i] = Embed(items[i].text)
          /\ tokenized_corpus[i] = _tokenize(items[i].text)
          /\ bm25.doc_freqs[i] = Frequencies(tokenized_corpus[i])

\* C5: after every add_items call, completed or failed partway, the item list, the
\* vector index and the BM25 index describe the same corpus.
C5_AlignedAfterAddItems == last.op = "add_items" => Aligned

\* C6: search on an engine that was never built, or that holds an empty corpus, fails
\* with a NotIndexed error of its own.
C6_NotIndexedError ==
    (Searched /\ (vector_index.is_none \/ items = <<>>)) => last.outcome = "NotIndexed"

\* C7: on a built engine, a search call with a negative top_k or an unknown fusion
\* strategy is rejected before the query is encoded and before either index is
\* queried.
C7_InvalidRejectedFirst ==
    (Searched /\ Aligned /\ (last.top_k < 0 \/ ~KnownStrategy(fusion_strategy))) =>
        /\ last.outcome # "ok"
        /\ last.work = NoWork

\* document idx of the BM25 index shares a token with the query
SharesToken(bm, query, idx) == Range(_tokenize(query)) \cap DOMAIN bm.doc_freqs[idx + 1] # {}

\* C8: the keyword candidate list holds only documents that share at least one token
\* with the query.
C8_KeywordOnlyOverlap ==
    (Searched /\ last.work.bm25_scores = 1) =>
        \A i \in 1..Len(last.keyword_results) :
            SharesToken(bm25, last.query, last.keyword_results[i][1])

\* C9: for a query without tokens the keyword candidate list is empty.
C9_NoTokensNoCandidates ==
    (Searched /\ last.work.bm25_scores = 1 /\ _tokenize(last.query) = <<>>) =>
        last.keyword_results = <<>>

\* the fused candidates whose item satisfies the filter, as results
RECURSIVE MatchingResults(_, _, _)
MatchingResults(its, fused, filters) ==
    IF fused = <<>> THEN <<>>
    ELSE LET item == ItemAt(its, Head(fused)[1])
         IN  (IF Matches(item, filters)
              THEN <<MakeResult(item, Head(fused)[1], Head(fused)[2])>> ELSE <<>>)
             \o MatchingResults(its, Tail(fused), filters)

FusedInRange == \A p \in 1..Len(last.fused) : IndexInRange(items, last.fused[p][1])

\* C10: for top_k >= 0 search returns exactly the first min(top_k, m) of the m fused
\* candidates that pass the filter, in fused order.
C10_FirstTopKMatching ==
    (Returned /\ last.top_k >= 0 /\ FusedInRange) =>
        last.results = Prefix(MatchingResults(items, last.fused, last.filters), last.top_k)

\* the corpus position (from 0) that a result's id denotes: self.items[idx] with
\* Python's indexing, so a negative idx counts from the end
DenotedItem(its, result) ==
    LET idx == CHOOSE n \in -Len(its)..(Len(its) - 1) : Str(n) = result.id
    IN  IF idx < 0 THEN Len(its) + idx ELSE idx

\* C29: on a built engine of N items, for every top_k and search_top_k, every result
\* of a search has an id in 0..N-1 and no two results of the call denote the same
\* corpus item.
C29_IdsInRangeAndDistinct ==
    (Returned /\ Aligned) =>
        /\ \A i \in 1..Len(last.results) :
               last.results[i].id \in {Str(n) : n \in 0..(Len(items) - 1)}
        /\ \A i, j \in 1..Len(last.results) :
               i # j => DenotedItem(items, last.results[i])
                            # DenotedItem(items, last.results[j])

-----------------------------------------------------------------------------
(* Properties of the fusion functions, checked under SpecFuse *)

Fused == fz.pc = "done"

\* C1: in the output of _fuse_weighted, _fuse_rrf and _fuse_combmnz, any two entries
\* with equal fused score appear in strictly increasing item index order.
C1_TieBreakByIndex == Fused => TiesAscending(fz.out)

\* C4: every score produced by _fuse_rrf, for a smoothing constant k >= 0, is
\* strictly greater than 0 and at most 2 / (k + 1).
C4_RrfScoreBounds ==
    (Fused /\ fz.fn = "rrf") =>
        \A p \in 1..Len(fz.out) :
            RPos(fz.out[p][2]) /\ RLe(fz.out[p][2], Rat(2, fz.k + 1))

\* with the default k, a candidate first in both lists reaches the upper bound and
\* another candidate stays below it
C4_Witness ==
    /\ Fused /\ fz.fn = "rrf" /\ fz.k = RrfDefaultK
    /\ fz.sem # <<>> /\ fz.kw # <<>> /\ fz.sem[1][1] = fz.kw[1][1]
    /\ \E p \in 1..Len(fz.out) : fz.out[p][2] = Rat(2, fz.k + 1)
    /\ \E p \in 1..Len(fz.out) : RLt(fz.out[p][2], Rat(1, fz.k + 1))

\* the indices of a candidate list, and the scores a list gives an index
LabelsOf(cands) == {cands[i][1] : i \in 1..Len(cands)}
ScoresOf(cands, idx) == {cands[i][2] : i \in {j \in 1..Len(cands) : cands[j][1] = idx}}
EntriesFor(out, idx) == {p \in 1..Len(out) : out[p][1] = idx}

\* score / max lexical score, read as 0 where the maximum is 0
OverMax(score, max_keyword) ==
    IF max_keyword = RZero THEN RZero ELSE RDiv(score, max_keyword)

\* semantic_weight * semantic_score + keyword_weight * (lexical_score / max), a list
\* that lacks the index giving 0
WeightedSum(sem, kw, idx, s, l) ==
    RAdd(IF idx \in LabelsOf(sem) THEN RMul(semantic_weight, s) ELSE RZero,
         IF idx \in LabelsOf(kw) THEN RMul(keyword_weight, OverMax(l, MaxKeyword(kw)))
         ELSE RZero)

\* C21: _fuse_weighted outputs, for every index of the union of its two lists, exactly
\* one entry, scored semantic_weight * semantic_score + keyword_weight *
\* (lexical_score / max lexical score) with 0 for a list that lacks the index, and no
\* entry for any other index.
C21_WeightedFormula ==
    (Fused /\ fz.fn = "weighted") =>
        /\ \A p \in 1..Len(fz.out) : fz.out[p][1] \in LabelsOf(fz.sem) \cup LabelsOf(fz.kw)
        /\ \A idx \in LabelsOf(fz.sem) \cup LabelsOf(fz.kw) :
              /\ Cardinality(EntriesFor(fz.out, idx)) = 1
              /\ \A p \in EntriesFor(fz.out, idx) :
                    \E s \in ScoresOf(fz.sem, idx) \cup {RZero},
                       l \in ScoresOf(fz.kw, idx) \cup {RZero} :
                        /\ (idx \in LabelsOf(fz.sem) => s \in ScoresOf(fz.sem, idx))
                        /\ (idx \in LabelsOf(fz.kw) => l \in ScoresOf(fz.kw, idx))
                        /\ fz.out[p][2] = WeightedSum(fz.sem, fz.kw, idx, s, l)

\* the number of candidate lists that hold an index
ListsHolding(sem, kw, idx) ==
    (IF idx \in LabelsOf(sem) THEN 1 ELSE 0) + (IF idx \in LabelsOf(kw) THEN 1 ELSE 0)

\* C22: every entry of the output of _fuse_combmnz is the sum of the item's semantic
\* score and normalized lexical score multiplied by the number of candidate lists the
\* item appears in (1 or 2), never by 0, also for an item whose semantic score is zero
\* or negative.
C22_CombMnzMultiplier ==
    (Fused /\ fz.fn = "combmnz") =>
        \A p \in 1..Len(fz.out) :
            LET idx == fz.out[p][1]
            IN  /\ ListsHolding(fz.sem, fz.kw, idx) \in {1, 2}
                /\ \E s \in ScoresOf(fz.sem, idx) \cup {RZero},
                      l \in ScoresOf(fz.kw, idx) \cup {RZero} :
                       /\ (idx \in LabelsOf(fz.sem) => s \in ScoresOf(fz.sem, idx))
                       /\ (idx \in LabelsOf(fz.kw) => l \in ScoresOf(fz.kw, idx))
                       /\ fz.out[p][2] =
                            RMul(RAdd(s, NormalizeKeyword(l, MaxKeyword(fz.kw))),
                                 RInt(ListsHolding(fz.sem, fz.kw, idx)))

\* the 1-based positions of an index in a candidate list
PositionsOf(cands, idx) == {i \in 1..Len(cands) : cands[i][1] = idx}

\* what a list gives an index at position r, r = 0 standing for "not in the list"
RrfTerm(k, r) == IF r = 0 THEN RZero ELSE Rat(1, k + r)

\* C23: for every index of the union of the two lists the _fuse_rrf score is the sum,
\* over the lists that hold the index, of 1 / (k + r), r being the 1-based position of
\* the index in that list; a list that lacks the index gives nothing.  The engine
\* calls it with the default k = 60.
C23_RrfFormula ==
    (Fused /\ fz.fn = "rrf") =>
        /\ \A p \in 1..Len(fz.out) : fz.out[p][1] \in LabelsOf(fz.sem) \cup LabelsOf(fz.kw)
        /\ \A idx \in LabelsOf(fz.sem) \cup LabelsOf(fz.kw) :
              /\ Cardinality(EntriesFor(fz.out, idx)) = 1
              /\ \A p \in EntriesFor(fz.out, idx) :
                    \E rs \in PositionsOf(fz.sem, idx) \cup {0},
                       rk \in PositionsOf(fz.kw, idx) \cup {0} :
                        /\ (idx \in LabelsOf(fz.sem) => rs # 0)
                        /\ (idx \in LabelsOf(fz.kw) => rk # 0)
                        /\ fz.out[p][2] = RAdd(RrfTerm(fz.k, rs), RrfTerm(fz.k, rk))

\* with the default k, one index is second in the semantic list and first in the
\* lexical list, and another index is in one list only
C23_Witness ==
    /\ Fused /\ fz.fn = "rrf" /\ fz.k = RrfDefaultK
    /\ Len(fz.sem) = 2 /\ fz.kw # <<>>
    /\ fz.sem[2][1] = fz.kw[1][1]
    /\ fz.sem[1][1] \notin LabelsOf(fz.kw)
    /\ \E p \in 1..Len(fz.out) :
          fz.out[p] = <<fz.kw[1][1], RAdd(Rat(1, RrfDefaultK + 2), Rat(1, RrfDefaultK + 1))>>
    /\ \E p \in 1..Len(fz.out) : fz.out[p] = <<fz.sem[1][1], Rat(1, RrfDefaultK + 1)>>

\* the normalized lexical scores a fusion call computes for its lexical list
NormalizedLexical(kw) ==
    [i \in 1..Len(kw) |-> NormalizeKeyword(kw[i][2], MaxKeyword(kw))]

AllZero(kw) == \A i \in 1..Len(kw) : kw[i][2] = RZero

\* C24: in _fuse_weighted and _fuse_combmnz every normalized lexical score lies in
\* [0, 1]; with an empty or all-zero lexical list every lexical contribution is 0 (the
\* division is not made).
C24_NormalizedInUnitInterval ==
    (Fused /\ fz.fn \in {"weighted", "combmnz"}) =>
        /\ \A i \in 1..Len(fz.kw) :
              /\ RLe(RZero, NormalizedLexical(fz.kw)[i])
              /\ RLe(NormalizedLexical(fz.kw)[i], ROne)
        /\ AllZero(fz.kw) =>
              /\ \A i \in 1..Len(fz.kw) : NormalizedLexical(fz.kw)[i] = RZero
              /\ fz.out = IF fz.fn = "weighted"
                          THEN _fuse_weighted(fz.sem, [i \in 1..Len(fz.kw) |-> <<fz.kw[i][1], RZero>>])
                          ELSE _fuse_combmnz(fz.sem, [i \in 1..Len(fz.kw) |-> <<fz.kw[i][1], RZero>>])

-----------------------------------------------------------------------------
(* Properties of SimilarityBenchmarker, checked under SpecBench *)

\* the call of a sweep, or of run_all_benchmarks, is over
CallOver == bn.pc \in {"raised", "returned"}

\* combination (i, j) of the grid of the sweep raises
CombinationFails(i, j) ==
    \/ BuildRaises(bn.algorithm, bn.outer[i], bn.n_vectors)
    \/ SearchRaises(bn.algorithm, bn.inner[j])

HasResultFor(results, i, j) ==
    \E r \in 1..Len(results) :
        /\ results[r].algorithm = bn.algorithm
        /\ results[r].parameters = Parameters(bn.algorithm, bn.outer[i], bn.inner[j])

\* C3: a sweep in which a parameter combination raises still returns, with a
\* BenchmarkResult for every combination that does not raise.
C3_PartialFailureTolerated ==
    CallOver =>
        /\ bn.has_returned
        /\ bn.caller = "direct" =>
              \A i \in 1..Len(bn.outer), j \in 1..Len(bn.inner) :
                  ~CombinationFails(i, j) => HasResultFor(bn.returned, i, j)

\* C25: in the HNSW, IVF and IVF+PQ sweeps every parameter combination (build-time
\* and query-time parameters together) is measured on an index built for it alone and
\* carries the time of that build: no index instance measures two combinations.
C25_FreshIndexPerCombination ==
    \A p, q \in 1..Len(bn.results) :
        /\ bn.results[p].build_time_of = bn.results[p].measured_on
        /\ (p # q /\ bn.results[p].parameters # bn.results[q].parameters) =>
              bn.results[p].measured_on # bn.results[q].measured_on

-----------------------------------------------------------------------------
(* Further properties of HybridSearchEngine.search, checked under Spec *)

\* no indexed item carries every key/value pair of the filter
NoItemCarries(filters) ==
    \A i \in 1..Len(items) :
        \E p \in 1..Len(filters) : ItemGet(items[i], filters[p][1]) # filters[p][2]

BuiltKnown == Aligned /\ KnownStrategy(fusion_strategy)

\* C11: on a built engine, when a filter is given that no indexed item satisfies,
\* search returns the empty list and raises no error.
C11_EmptyWhenNothingMatches ==
    (Searched /\ BuiltKnown /\ last.filters # NoFilter /\ NoItemCarries(last.filters)) =>
        /\ last.outcome = "ok"
        /\ last.results = <<>>

\* a call with top_k >= 1 whose fused list held several candidates, all dropped
C11_Witness ==
    /\ Searched /\ BuiltKnown /\ last.filters # NoFilter /\ NoItemCarries(last.filters)
    /\ last.top_k >= 1 /\ Len(last.fused) >= 2
    /\ last.outcome = "ok" /\ last.results = <<>>

\* the call just made, with another candidate pool size
WithPool(s) ==
    search(fusion_strategy, items, vector_index, bm25,
           last.query, last.top_k, last.filters, s)

\* C12: on a built engine, with query, filter and top_k fixed, a larger candidate pool
\* size search_top_k never gives fewer results than a smaller one.
C12_PoolMonotone ==
    (Returned /\ Aligned) =>
        \A s \in SearchTopKs :
            s >= last.search_top_k =>
                /\ WithPool(s).outcome = "ok"
                /\ Len(WithPool(s).results) >= Len(last.results)

\* a larger pool gives strictly more results
C12_Witness ==
    /\ Returned /\ Aligned
    /\ \E s \in SearchTopKs :
          /\ s > last.search_top_k
          /\ WithPool(s).outcome = "ok"
          /\ Len(WithPool(s).results) > Len(last.results)

\* C14: the scores of the list search returns are non-increasing from first to last.
C14_ScoresNonIncreasing ==
    Returned =>
        \A i, j \in 1..Len(last.results) :
            i < j => RLe(last.results[j].score, last.results[i].score)

\* a filtered call that returned results with different scores, the best of the
\* fused list dropped
C14_Witness ==
    /\ Returned /\ BuiltKnown /\ last.filters # NoFilter
    /\ Len(last.results) >= 2
    /\ RLt(last.results[2].score, last.results[1].score)
    /\ last.results[1].id # Str(last.fused[1][1])

-----------------------------------------------------------------------------
(* Properties of overlapping calls, checked under SpecConc *)

\* a thread takes a step of a search call
SearchStep ==
    \E t \in Threads :
        \/ th[t].pc = "idle" /\ th'[t].pc = "s_semantic"
        \/ InSearch(t) /\ (th'[t].pc # th[t].pc \/ th'[t].pos # th[t].pos)

\* every finished search call that no add_items step overlapped has the outcome and
\* the results of the same call running alone
SearchesAsAlone ==
    \A t \in Threads :
        (th[t].op = "search" /\ th[t].pc = "done" /\ ~th[t].overlapped) =>
            /\ th[t].outcome = th[t].expect.outcome
            /\ th[t].results = th[t].expect.results

\* C15: a step of search leaves items, embeddings, vector_index, bm25,
\* tokenized_corpus and fusion_strategy unchanged, and search calls that interleave
\* with each other return what they return running one after another.
C15_SearchReadOnly ==
    [][(SearchStep => UNCHANGED engine_vars) /\ SearchesAsAlone']_vars

\* two search calls on a built engine, the second begun while the first was in
\* flight, both returned different non-empty lists
C15_Witness ==
    /\ Aligned
    /\ \A t \in Threads :
          /\ th[t].op = "search" /\ th[t].pc = "done" /\ ~th[t].overlapped
          /\ th[t].outcome = "ok" /\ th[t].results # <<>>
    /\ \E t \in Threads : "search" \in th[t].during
    /\ th["t1"].results # th["t2"].results

\* two finished search calls of different threads with the same query and filters
\* (top_k and search_top_k are ConcTopK and ConcSearchTopK in every call); with both
\* threads searching, no add_items call has run on the engine
SameCallTwice(a, b) ==
    /\ a # b
    /\ \A t \in {a, b} : th[t].op = "search" /\ th[t].pc = "done"
    /\ th[a].query = th[b].query
    /\ th[a].filters = th[b].filters

C16_BuildsNeverMix ==
    (\A t \in Threads : th[t].op = "add_items" /\ th[t].pc = "done" /\ th[t].outcome = "ok")
        => Aligned

-----------------------------------------------------------------------------
(* Properties of the recall computation, checked under SpecRecall *)

\* |set(predicted[:K]) /\ set(ground_truth[:K])| / K for one query
RecallOverK(pred, truth, k) ==
    Rat(Cardinality(Range(Prefix(pred, k)) \cap Range(Prefix(truth, k))), k)

MeanRecallOverK(predicted, ground_truth, k) ==
    RDiv(RSum([q \in 1..Len(predicted) |-> RecallOverK(predicted[q], ground_truth[q], k)]),
         RInt(Len(predicted)))

\* C17: the recall@K that _compute_recall returns is the mean over the queries of
\* |set(predicted[:K]) /\ set(ground_truth[:K])| / K, padded rows included.
C17_RecallOverK ==
    rc.pc = "recall_done" => rc.recall = MeanRecallOverK(rc.predicted, rc.ground_truth, rc.k)

\* C18: with the ground truth computed by exact search on the same database and
\* queries, the Exact BenchmarkResult reports recall_at_10 = recall_at_100 = 1, and
\* these are the recalls _compute_recall gives for the neighbours the exact index
\* returns (the 10 nearest for recall@10, the 100 nearest for recall@100; ExactK and
\* GtK here) against that ground truth.
C18_ExactRecallIsOne ==
    rc.pc = "exact_done" =>
        /\ rc.ground_truth = _compute_ground_truth(rc.database, rc.queries)
        /\ rc.exact_result.recall_at_10 = ROne
        /\ rc.exact_result.recall_at_100 = ROne
        /\ _compute_recall(ExactNeighbours(rc.database, rc.queries, ExactK),
                           rc.ground_truth, ExactK) = rc.exact_result.recall_at_10
        /\ _compute_recall(ExactNeighbours(rc.database, rc.queries, GtK),
                           rc.ground_truth, GtK) = rc.exact_result.recall_at_100

-----------------------------------------------------------------------------
(* Properties of CLIPSearchEngine persistence, checked under SpecClip *)

\* search gives the same outcome and ordered results on two engines
SameSearches(index1, items1, index2, items2) ==
    \A query \in ClipQueries, top_k \in ClipTopKs, filters \in ClipFilters :
        clip_search(index1, items1, query, top_k, filters)
            = clip_search(index2, items2, query, top_k, filters)

\* C19: after save_index on a built engine and load_index of what it wrote, search
\* returns for every query, top_k and filter the ordered results it returned before
\* the save.
C19_RoundTripSameResults ==
    (cl.last.op = "load_index" /\ cl.last.outcome = "ok" /\ cl.complete) =>
        SameSearches(cl.index, cl.items, cl.saved.index, cl.saved.items)

\* the two files do not describe the same corpus
ArtifactsMismatch ==
    /\ cl.index_file.state = "written"
    /\ \/ cl.metadata_file.state # "written"
       \/ Len(cl.metadata_file.content) # Len(cl.index_file.content)

\* C20: load_index on artifacts whose vector count differs from the metadata count,
\* or whose metadata cannot be read, fails with IndexCorrupt and leaves index and
\* items as they were.
C20_CorruptLoadRejected ==
    (cl.last.op = "load_index" /\ ArtifactsMismatch) =>
        /\ cl.last.outcome = "IndexCorrupt"
        /\ cl.index = cl.last.before.index
        /\ cl.items = cl.last.before.items

-----------------------------------------------------------------------------
(* Properties of the benchmark run, checked under SpecSweep *)

\* the results gathered so far by the call under way
Reported(b) == b.all_results \o b.results

\* C26: for each parameter combination of a sweep the index is built, then every query
\* of the query set is measured once, in query-set order, then one BenchmarkResult is
\* appended; nothing is appended before the queries have all run, and an appended
\* result is not changed by the combinations that follow (a call that raises hands
\* nothing over at all).
C26_BuildMeasureAppend ==
    [][sw'.pc # "raised" =>
          \/ Reported(sw') = Reported(sw)
          \/ /\ sw.pc = "idle"
             /\ Len(Reported(sw')) = 1 /\ Reported(sw')[1].algorithm = "Exact"
          \/ /\ sw.pc = "append"
             /\ sw.index.id \in 1..sw.builds
             /\ sw.index.build = sw.outer[sw.i]
             /\ sw.queried = [q \in 1..Len(sw.queries) |-> q]
             /\ Len(sw.all_indices) = Len(sw.queries)
             /\ \E r \in {sw'.results[Len(sw'.results)]} :
                   /\ Reported(sw') = Append(Reported(sw), r)
                   /\ r.parameters = Parameters(sw.algorithm, sw.outer[sw.i], sw.inner[sw.j])
                   /\ r.queried = sw.queried
                   /\ r.measured_on = sw.index.id]_vars

\* a sweep over two builds and two query-time values on two queries has returned its
\* four results
C26_Witness ==
    /\ sw # SwIdle
    /\ sw.pc = "returned" /\ sw.caller = "direct"
    /\ Len(sw.queries) = 2 /\ sw.builds = 2
    /\ Len(sw.returned) = 4
    /\ \A p \in 1..4 : sw.returned[p].queried = <<1, 2>>

\* C27: the ground truth is computed by exact search at most once, at construction, and
\* not at all when one is supplied; no call changes it; and every recall value of every
\* variant is the recall of the rows that variant's index returned against it.
C27_OneGroundTruth ==
    sw.pc # "new" =>
        /\ sw.gt_computations <= 1
        /\ sw.gt_given => sw.gt_computations = 0
        /\ sw.gt_given \/ sw.ground_truth = _compute_ground_truth(sw.database, sw.queries)
        /\ \A p \in 1..Len(Reported(sw) \o sw.returned) :
              LET r == (Reported(sw) \o sw.returned)[p]
              IN  /\ r.recall_at_10 = _compute_recall(r.all_indices, sw.ground_truth, ExactK)
                  /\ r.algorithm # "Exact" =>
                        r.recall_at_100 = _compute_recall(r.all_indices, sw.ground_truth, GtK)

-----------------------------------------------------------------------------
(* Properties of EmbeddingGenerator, checked under SpecEmbed *)

\* two finished encode_single calls of different threads for one text that both
\* missed the cache
RacedOn(a, b, text) ==
    /\ a # b
    /\ eg.cache_enabled
    /\ \A t \in {a, b} : /\ eg.t[t].pc = "done"
                         /\ eg.t[t].op = "encode_single"
                         /\ eg.t[t].texts = <<text>>
                         /\ eg.t[t].missed

\* C28: when two concurrent encode_single calls for the same text both miss the
\* cache, each returns the model's embedding of the text, the cache ends holding
\* exactly that embedding under the text's key, every other key is as it was, and
\* the model was called twice (one call more than without the race).
C28_RaceOnlyDuplicatesModelCall ==
    eg # EgIdle =>
        \A a \in EgThreads, b \in EgThreads, text \in EgTexts :
            RacedOn(a, b, text) =>
                /\ eg.t[a].result = EgModelEncode(text)
                /\ eg.t[b].result = EgModelEncode(text)
                /\ RedisGet(eg.cache, _get_cache_key(text))
                       = PickleDumps(EgModelEncode(text))
                /\ _get_cached_embedding(eg.cache_enabled, eg.cache, text)
                       = EgModelEncode(text)
                /\ DOMAIN eg.cache = DOMAIN eg.cache_at_start \cup {_get_cache_key(text)}
                /\ \A k \in DOMAIN eg.cache_at_start : eg.cache[k] = eg.cache_at_start[k]
                /\ eg.model_calls = <<<<text>>, <<text>>>>

\* both threads raced on "a" while "b" was cached before
C28_Witness ==
    /\ eg # EgIdle
    /\ RacedOn("t1", "t2", "a")
    /\ DOMAIN eg.cache_at_start = {_get_cache_key("b")}

\* C30: a finished encode_batch call returned len(texts) rows, and row i is the
\* model's embedding of texts[i], whatever texts were cached when the call looked
\* them up and whatever the other thread did meanwhile.
C30_BatchRowsAligned ==
    eg # EgIdle =>
        \A t \in EgThreads :
            (eg.t[t].pc = "done" /\ eg.t[t].op = "encode_batch") =>
                /\ Len(eg.t[t].result) = Len(eg.t[t].texts)
                /\ \A i \in 1..Len(eg.t[t].texts) :
                       eg.t[t].result[i] = EgModelEncode(eg.t[t].texts[i])

\* a finished encode_batch(["a", "b", "a"]) that found only the middle text cached
C30_Witness ==
    /\ eg # EgIdle
    /\ \E t \in EgThreads :
          /\ eg.t[t].pc = "done"
          /\ eg.t[t].op = "encode_batch"
          /\ eg.t[t].texts = <<"a", "b", "a">>
          /\ eg.t[t].uncached_indices = <<0, 2>>
          /\ Len(eg.t[t].result) = 3
====
